---------------------------- MODULE Spec2Model ----------------------------
(* Chat-log store (api/db/services/chat_log_service.py), the conversation  *)
(* orchestrator that writes it (api/apps/conversation_app.py: completion,  *)
(* ask_about), the routes that read it (api/apps/chat_log_app.py) and the  *)
(* relevance check (api/services/zain_flagger.py).                         *)
(*                                                                         *)
(* Text is a sequence of tokens: the tags "<think>" and "</think>" are     *)
(* single tokens, " " is whitespace, every other token is a piece of text  *)
(* holding no tag and no whitespace at its ends.                           *)
(* Python's None is NULL for scalars, and the empty option for the         *)
(* response text, so that the response "" and the absent response differ.  *)
EXTENDS Integers, Sequences, FiniteSets, TLC

VARIABLES
    store,          \* ChatLog table: id -> entry
    next_id,        \* get_uuid(): the next fresh id
    now,            \* the clock read by current_timestamp() and time.time()
    last_op,        \* the last store operation executed (name, id, outcome)
    n_calls,        \* number of store operations called from outside a turn
    pc,             \* position of the request handler / its stream() generator
    path,           \* which handler runs the turn
    has_question,   \* completion: the message list ends with a user message
    messages,       \* completion: request.json["messages"], the submitted list
    conv,           \* completion: the conversation's transcript and references
    is_embedded,    \* completion: bool(chat_model_id)
    log_id,         \* the handler's log_id (0 is None)
    start_time,     \* the handler's start_time
    consumed,       \* the partial answers taken from the engine so far
    final_response, \* stream(): final_response
    response_parts, \* completion, non-streaming branch: response_parts
    frames,         \* what the caller has received so far
    hist            \* the calls the handler has issued, in order

store_vars == <<store, next_id, now, last_op, n_calls>>
turn_vars == <<pc, path, has_question, messages, conv, is_embedded, log_id, start_time,
                consumed, final_response, response_parts, frames, hist>>
vars == <<store, next_id, now, last_op, n_calls, pc, path, has_question, messages,
          conv, is_embedded,
          log_id, start_time, consumed, final_response, response_parts,
          frames, hist>>

--------------------------------------------------------------------------
(* Bounds *)

MaxLogs == 2
MaxTime == 1
MaxAnswers == 2
MaxCalls == 3

--------------------------------------------------------------------------
(* Values *)

NULL == "NULL"
NoId == 0
None == << >>
Some(t) == <<t>>

OPEN == "<think>"
CLOSE == "</think>"
WS == " "

Tenants == {"t1", "t2"}

\* No conversation loaded: no transcript, no references.
NoConversation == [message |-> << >>, reference |-> << >>]

--------------------------------------------------------------------------
(* clean_think_content *)

\* re.sub(r'<think>[\s\S]*?</think>', '', s): left to right, every
\* non-overlapping match, each from a <think> to the first </think> after it.
RECURSIVE re_sub_think(_)
re_sub_think(s) ==
    IF s = << >> THEN << >>
    ELSE IF Head(s) = OPEN /\ \E j \in 2..Len(s) : s[j] = CLOSE
         THEN LET j == CHOOSE j \in 2..Len(s) :
                           s[j] = CLOSE /\ \A k \in 2..(j - 1) : s[k] # CLOSE
              IN re_sub_think(SubSeq(s, j + 1, Len(s)))
         ELSE <<Head(s)>> \o re_sub_think(Tail(s))

\* while result != previous_result: result = re.sub(...)
RECURSIVE remove_until_stable(_)
remove_until_stable(s) ==
    LET r == re_sub_think(s)
    IN IF r = s THEN r ELSE remove_until_stable(r)

\* str.strip()
RECURSIVE lstrip(_)
lstrip(s) == IF s # << >> /\ Head(s) = WS THEN lstrip(Tail(s)) ELSE s

RECURSIVE rstrip(_)
rstrip(s) ==
    IF s # << >> /\ s[Len(s)] = WS THEN rstrip(SubSeq(s, 1, Len(s) - 1)) ELSE s

strip(s) == rstrip(lstrip(s))

clean_think_content(text) == strip(remove_until_stable(text))

--------------------------------------------------------------------------
(* ChatLogService *)

LogTypeOf(is_flagged) == IF is_flagged THEN "flagged" ELSE "normal"

\* The keyword defaults of log_chat_message.
LogArgs(tenant_id, user_id, question) ==
    [tenant_id |-> tenant_id, user_id |-> user_id, question |-> question,
     response |-> None, dialog_id |-> NULL, conversation_id |-> NULL,
     is_flagged |-> FALSE, flag_reason |-> NULL, kb_ids |-> {},
     tokens_used |-> 0, response_time |-> 0, source |-> "completion",
     metadata |-> {}]

\* log_chat_message: the row it saves. t1, t2 are its two clock reads.
log_data(id, a, t1, t2) ==
    [id |-> id,
     tenant_id |-> a.tenant_id,
     user_id |-> a.user_id,
     question |-> a.question,
     response |-> a.response,
     dialog_id |-> a.dialog_id,
     conversation_id |-> a.conversation_id,
     is_flagged |-> a.is_flagged,
     log_type |-> LogTypeOf(a.is_flagged),
     flag_reason |-> a.flag_reason,
     kb_ids |-> a.kb_ids,
     tokens_used |-> a.tokens_used,
     response_time |-> a.response_time,
     source |-> a.source,
     metadata |-> a.metadata,
     create_time |-> t1,
     update_time |-> t2]

\* flag_unrelated_question: the arguments it passes to log_chat_message.
\* response is an option; `response or "I can't answer this"` replaces the
\* absent and the empty response.
CantAnswerThis == <<"I can't answer this">>
flag_unrelated_args(tenant_id, user_id, question, flag_reason, response) ==
    [LogArgs(tenant_id, user_id, question) EXCEPT
        !.response = IF response = None \/ response = Some(<< >>)
                     THEN Some(CantAnswerThis) ELSE response,
        !.is_flagged = TRUE,
        !.flag_reason = flag_reason,
        !.source = "flagged"]

\* A variant that writes the whole classification along with the response.
response_update_data_ClearsFlag(response, tokens_used, response_time, t) ==
    [response |-> Some(response),
     is_flagged |-> FALSE,
     flag_reason |-> NULL,
     log_type |-> "normal",
     tokens_used |-> tokens_used,
     response_time |-> response_time,
     update_time |-> t]

\* A variant that recomputes log_type as for an unflagged entry.
response_update_data_ResetsLogType(response, tokens_used, response_time, t) ==
    [response |-> Some(response),
     log_type |-> "normal",
     tokens_used |-> tokens_used,
     response_time |-> response_time,
     update_time |-> t]

\* update_response: update_data
response_update_data(response, tokens_used, response_time, t) ==
    [response |-> Some(response),
     tokens_used |-> tokens_used,
     response_time |-> response_time,
     update_time |-> t]

\* A variant that leaves log_type as it was.
flagging_update_data_NoLogType(response, is_flagged, flag_reason, response_time, tokens_used, t) ==
    [response |-> Some(response),
     is_flagged |-> is_flagged,
     flag_reason |-> flag_reason,
     response_time |-> response_time,
     tokens_used |-> tokens_used,
     update_time |-> t]

\* update_log_with_flagging: update_data
flagging_update_data(response, is_flagged, flag_reason, response_time, tokens_used, t) ==
    [response |-> Some(response),
     is_flagged |-> is_flagged,
     flag_reason |-> flag_reason,
     log_type |-> LogTypeOf(is_flagged),
     response_time |-> response_time,
     tokens_used |-> tokens_used,
     update_time |-> t]

\* CommonService.save: insert the row.
save(s, row) == [k \in DOMAIN s \cup {row.id} |-> IF k = row.id THEN row ELSE s[k]]

\* CommonService.update_by_id: a partial update of the row with that id;
\* the fields not named in data keep their values. No row: nothing changes.
update_by_id(s, id, data) ==
    IF id \in DOMAIN s
    THEN [s EXCEPT ![id] = [f \in DOMAIN @ |-> IF f \in DOMAIN data THEN data[f] ELSE @[f]]]
    ELSE s

update_ok(s, id) == id \in DOMAIN s

\* CommonService.filter_delete({"tenant_id": tenant_id})
filter_delete(s, tenant_id) ==
    [k \in {i \in DOMAIN s : s[i].tenant_id # tenant_id} |-> s[k]]

delete_count(s, tenant_id) ==
    Cardinality({i \in DOMAIN s : s[i].tenant_id = tenant_id})

--------------------------------------------------------------------------
(* The store used directly: any caller, any arguments, any order *)

Flaggings == {<<TRUE, "out of scope">>, <<TRUE, NULL>>, <<FALSE, NULL>>}
Metrics == {<<0, 0>>, <<5, 1>>}
Ids == 1..MaxLogs

\* The argument records log_chat_message is called with.
CreateArgs ==
    {[LogArgs(t, "u1", "q1") EXCEPT !.is_flagged = f[1], !.flag_reason = f[2]] :
        t \in Tenants, f \in {<<FALSE, NULL>>, <<TRUE, "out of scope">>}}

\* current_timestamp(), time.time(): a read of the clock returns the time of
\* the previous read or a later one.
ClockReads == {t \in now..(now + 1) : t <= MaxTime}
ReadsAfter(t1) == {t \in t1..(t1 + 1) : t <= MaxTime}

Op(name, id, ok) == [op |-> name, id |-> id, ok |-> ok]

LogChatMessage ==
    /\ n_calls < MaxCalls
    /\ n_calls' = n_calls + 1
    /\ next_id <= MaxLogs
    /\ \E a \in CreateArgs, t1 \in ClockReads :
       \E t2 \in ReadsAfter(t1) :
          /\ store' = save(store, log_data(next_id, a, t1, t2))
          /\ now' = t2
    /\ next_id' = next_id + 1
    /\ last_op' = Op("log_chat_message", next_id, TRUE)
    /\ UNCHANGED turn_vars

FlagUnrelatedQuestion ==
    /\ n_calls < MaxCalls
    /\ n_calls' = n_calls + 1
    /\ next_id <= MaxLogs
    /\ \E t \in Tenants, r \in {None, Some(<< >>), Some(<<"A">>)}, t1 \in ClockReads :
       \E t2 \in ReadsAfter(t1) :
          /\ store' = save(store, log_data(next_id,
                              flag_unrelated_args(t, "u1", "q1", "out of scope", r), t1, t2))
          /\ now' = t2
    /\ next_id' = next_id + 1
    /\ last_op' = Op("flag_unrelated_question", next_id, TRUE)
    /\ UNCHANGED turn_vars

UpdateResponse ==
    /\ n_calls < MaxCalls
    /\ n_calls' = n_calls + 1
    /\ \E id \in Ids, m \in Metrics, t \in ClockReads :
          /\ store' = update_by_id(store, id,
                          response_update_data(<<"R">>, m[1], m[2], t))
          /\ now' = t
          /\ last_op' = Op("update_response", id, update_ok(store, id))
    /\ UNCHANGED next_id
    /\ UNCHANGED turn_vars

UpdateLogWithFlagging ==
    /\ n_calls < MaxCalls
    /\ n_calls' = n_calls + 1
    /\ \E id \in Ids, f \in Flaggings, t \in ClockReads :
          /\ store' = update_by_id(store, id,
                          flagging_update_data(<<"F">>, f[1], f[2], 1, 0, t))
          /\ now' = t
          /\ last_op' = Op("update_log_with_flagging", id, update_ok(store, id))
    /\ UNCHANGED next_id
    /\ UNCHANGED turn_vars

\* What a purge did: the tenant it was called for and the count it returned.
Purged(t, count) ==
    [op |-> "delete_all_logs", id |-> count, ok |-> TRUE, req |-> t]

\* A variant whose delete has no tenant condition.
delete_all_logs_EveryTenant(t) ==
    /\ n_calls < MaxCalls
    /\ n_calls' = n_calls + 1
    /\ store' = << >>
    /\ last_op' = Purged(t, Cardinality(DOMAIN store))
    /\ UNCHANGED <<next_id, now>>
    /\ UNCHANGED turn_vars

\* delete_all_logs(tenant_id)
delete_all_logs(t) ==
    /\ n_calls < MaxCalls
    /\ n_calls' = n_calls + 1
    /\ store' = filter_delete(store, t)
    /\ last_op' = Purged(t, delete_count(store, t))
    /\ UNCHANGED <<next_id, now>>
    /\ UNCHANGED turn_vars

DeleteAllLogs == \E t \in Tenants : delete_all_logs(t)

Init ==
    /\ store = << >>
    /\ next_id = 1
    /\ now = 0
    /\ last_op = Op("none", NoId, TRUE)
    /\ n_calls = 0
    /\ pc = "idle"
    /\ path = "none"
    /\ has_question = FALSE
    /\ messages = << >>
    /\ conv = NoConversation
    /\ is_embedded = FALSE
    /\ log_id = NoId
    /\ start_time = 0
    /\ consumed = << >>
    /\ final_response = << >>
    /\ response_parts = << >>
    /\ frames = << >>
    /\ hist = << >>

StoreNext ==
    \/ LogChatMessage
    \/ FlagUnrelatedQuestion
    \/ UpdateResponse
    \/ UpdateLogWithFlagging
    \/ DeleteAllLogs

StoreSpec == Init /\ [][StoreNext]_vars

--------------------------------------------------------------------------
(* The conversation orchestrator: one turn of completion or ask_about *)

CantAnswerThat == <<"I can't answer that">>
\* A value that is a dict, with its keys, or is not one.
Dict(chunks, doc_aggs) == [type |-> "dict", chunks |-> chunks, doc_aggs |-> doc_aggs]
EmptyDict == [type |-> "dict"]
NotADict == [type |-> "list"]

\* The reference the engine attaches to an answer: the chunks retrieved for
\* it, or no dict when it retrieved nothing.
Retrieved(t) ==
    IF t = << >> THEN NotADict
    ELSE Dict(<<[chunk_id |-> "k1", content_with_weight |-> t]>>, <<"d1">>)

Answer(t, f, r) ==
    [answer |-> t, is_flagged |-> f, flag_reason |-> r, reference |-> Retrieved(t)]

\* What the engine (chat, ask) yields. flag_reason = NULL: the key is absent.
Answers ==
    {Answer(<<"A">>, FALSE, NULL),
     Answer(<<OPEN, "x", CLOSE, WS, "B">>, FALSE, NULL),
     Answer(<< >>, FALSE, NULL),
     Answer(CantAnswerThat, TRUE, "out of scope"),
     Answer(<<OPEN, "y", CLOSE, "C">>, TRUE, NULL),
     Answer(<< >>, TRUE, NULL)}

Streams == {"completion_stream", "ask"}

\* dia.tenant_id, or the tenant ask_about resolves.
TurnTenant == "t1"

ans == consumed[Len(consumed)]
n_ans == Len(consumed)

H(op, n, ok) == [op |-> op, n |-> n, ok |-> ok]
Frame(kind, n) == [kind |-> kind, n |-> n]

NoRelevantKnowledge == "No relevant knowledge found"

\* "".join(response_parts)
RECURSIVE Join(_)
Join(parts) == IF parts = << >> THEN << >> ELSE Head(parts) \o Join(Tail(parts))

\* A variant that creates the entry with an empty response already set.
initial_log_args_Answered(p, tenant_id) ==
    [LogArgs(tenant_id, "u1", "q1") EXCEPT
        !.response = Some(<< >>),
        !.source = IF p = "ask" THEN "ask" ELSE "completion"]

\* The arguments of the initial log_chat_message call.
initial_log_args(p, tenant_id) ==
    IF p = "ask"
    THEN [LogArgs(tenant_id, "u1", "q1") EXCEPT
              !.source = "ask", !.kb_ids = {"kb1"},
              !.metadata = {"search_id", "search_config"}]
    ELSE [LogArgs(tenant_id, "u1", "q1") EXCEPT
              !.dialog_id = "d1", !.conversation_id = "c1",
              !.source = "completion",
              !.metadata = {"chat_model_id", "message_id", "kb_ids"}]

\* A variant that passes the update is_flagged=False.
flagged_log_update_Unflagged(p, a, rt, t) ==
    flagging_update_data(
        IF p = "completion_stream" THEN clean_think_content(a.answer) ELSE a.answer,
        FALSE,
        IF a.flag_reason = NULL THEN NoRelevantKnowledge ELSE a.flag_reason,
        rt, 0, t)

\* The update a flagged partial answer causes. The streaming branch cleans
\* the answer text, the non-streaming branch passes it as it is.
flagged_log_update(p, a, rt, t) ==
    flagging_update_data(
        IF p = "completion_stream" THEN clean_think_content(a.answer) ELSE a.answer,
        TRUE,
        IF a.flag_reason = NULL THEN NoRelevantKnowledge ELSE a.flag_reason,
        rt, 0, t)

\* A variant that stores the final text without cleaning it.
final_log_update_Raw(text, rt, t) ==
    response_update_data(text, 0, rt, t)

\* The update that ends a turn.
final_log_update(text, rt, t) ==
    response_update_data(clean_think_content(text), 0, rt, t)

\* The text the final update is made from.
final_text(p, fr, parts) == IF p = "completion" THEN Join(parts) ELSE fr

\* if ans and ans.get("is_flagged"): the paths that look at the marker.
checks_flag(p) == p # "ask"

\* rag.prompts.chunks_format: the chunks of a reference under the keys the
\* transcript uses.
chunks_format(reference) ==
    IF "chunks" \notin DOMAIN reference THEN << >>
    ELSE [i \in 1..Len(reference.chunks) |->
             [id |-> reference.chunks[i].chunk_id,
              content |-> reference.chunks[i].content_with_weight]]

\* structure_answer: the reference it puts in the transcript.
structured_reference(a) ==
    IF a.reference.type = "dict"
    THEN [a.reference EXCEPT !.chunks = chunks_format(a.reference)]
    ELSE [type |-> "dict", chunks |-> chunks_format(EmptyDict)]

Message(role, content, id) == [role |-> role, content |-> content, id |-> id]
last(s) == s[Len(s)]

\* A variant that adds a message for every partial answer.
structure_answer_AlwaysAppends(c, a, id) ==
    LET said == Message("assistant", a.answer, id)
    IN [message |-> Append(c.message, said),
        reference |->
            IF c.reference # << >>
            THEN [c.reference EXCEPT ![Len(c.reference)] = structured_reference(a)]
            ELSE c.reference]

\* structure_answer(conv, ans, message_id, session_id): what it does to
\* conv. The assistant message's created_at is not kept.
structure_answer(c, a, id) ==
    LET said == Message("assistant", a.answer, id)
    IN [message |->
            IF c.message = << >> \/ last(c.message).role # "assistant"
            THEN Append(c.message, said)
            ELSE [c.message EXCEPT ![Len(c.message)] = said],
        reference |->
            IF c.reference # << >>
            THEN [c.reference EXCEPT ![Len(c.reference)] = structured_reference(a)]
            ELSE c.reference]

\* completion: msg, the submitted messages without the system messages and
\* the assistant messages that come before every other message.
RECURSIVE msg_of(_)
msg_of(ms) ==
    IF ms = << >> THEN << >>
    ELSE LET before == msg_of(SubSeq(ms, 1, Len(ms) - 1))
             m == last(ms)
         IN IF m.role = "system" \/ (m.role = "assistant" /\ before = << >>)
            THEN before
            ELSE Append(before, m)

\* msg[-1].get("id")
message_id(ms) == last(msg_of(ms)).id

\* msg and msg[-1].get("role") == "user"
asks(ms) == msg_of(ms) # << >> /\ last(msg_of(ms)).role = "user"

\* completion: conv as the handler sets it up before the engine runs.
truthy(r) == r.type = "dict" /\ DOMAIN r # {"type"}
loaded_conversation(ms, stored_reference) ==
    [message |-> ms,
     reference |-> Append(SelectSeq(stored_reference, truthy), Dict(<< >>, << >>))]

\* The requests of /completion: the submitted messages, and the reference
\* list the conversation holds from its earlier turns.
CompletionRequests ==
    {[messages |-> <<Message("system", <<"s">>, NULL), Message("user", <<"q0">>, "m1"),
                     Message("assistant", <<"a0">>, "m1"), Message("user", <<"q1">>, "m2")>>,
      reference |-> <<EmptyDict, Dict(<<[id |-> "k0", content |-> <<"a0">>]>>, <<"d0">>)>>],
     [messages |-> <<Message("assistant", <<"hi">>, NULL), Message("user", <<"q0">>, "m1"),
                     Message("assistant", <<"a0">>, "m1")>>,
      reference |-> << >>]}

Completion ==
    /\ pc = "idle"
    /\ \E stream \in BOOLEAN, r \in CompletionRequests, emb \in BOOLEAN :
          /\ path' = IF stream THEN "completion_stream" ELSE "completion"
          /\ messages' = r.messages
          /\ has_question' = asks(r.messages)
          /\ conv' = loaded_conversation(r.messages, r.reference)
          /\ is_embedded' = emb
    /\ \E t \in ClockReads : start_time' = t /\ now' = t
    /\ pc' = "create_log"
    /\ UNCHANGED <<store, next_id, last_op, n_calls>>
    /\ UNCHANGED <<log_id, consumed, final_response, response_parts, frames, hist>>

AskAbout ==
    /\ pc = "idle"
    /\ path' = "ask"
    /\ has_question' = TRUE
    /\ UNCHANGED <<messages, conv>>
    /\ is_embedded' = FALSE
    /\ \E t \in ClockReads : start_time' = t /\ now' = t
    /\ pc' = "create_log"
    /\ UNCHANGED <<store, next_id, last_op, n_calls>>
    /\ UNCHANGED <<log_id, consumed, final_response, response_parts, frames, hist>>

\* A variant in which a failure to create the entry ends the request.
CreateInitialLog_Aborts ==
    /\ pc = "create_log"
    /\ \/ /\ path # "ask"
          /\ ~has_question
          /\ pc' = "invoke"
          /\ UNCHANGED <<store, next_id, now, last_op, log_id, hist, frames>>
       \/ /\ path = "ask" \/ has_question
          /\ next_id <= MaxLogs
          /\ \E t1 \in ClockReads :
             \E t2 \in ReadsAfter(t1) :
                /\ store' = save(store, log_data(next_id, initial_log_args(path, TurnTenant), t1, t2))
                /\ now' = t2
          /\ next_id' = next_id + 1
          /\ last_op' = Op("log_chat_message", next_id, TRUE)
          /\ log_id' = next_id
          /\ hist' = Append(hist, H("create", next_id, TRUE))
          /\ pc' = "invoke"
          /\ frames' = frames
       \/ /\ path = "ask" \/ has_question
          /\ log_id' = NoId
          /\ hist' = Append(hist, H("create", NoId, FALSE))
          /\ pc' = "done"
          /\ frames' = Append(frames, Frame("server_error", 0))
          /\ UNCHANGED <<store, next_id, now, last_op>>
    /\ UNCHANGED <<n_calls, path, has_question, messages, conv,
                   is_embedded, start_time, consumed,
                   final_response, response_parts>>

CreateInitialLog ==
    /\ pc = "create_log"
    /\ \/ /\ path # "ask"
          /\ ~has_question
          /\ UNCHANGED <<store, next_id, now, last_op, log_id, hist>>
       \/ /\ path = "ask" \/ has_question
          /\ next_id <= MaxLogs
          /\ \E t1 \in ClockReads :
             \E t2 \in ReadsAfter(t1) :
                /\ store' = save(store, log_data(next_id, initial_log_args(path, TurnTenant), t1, t2))
                /\ now' = t2
          /\ next_id' = next_id + 1
          /\ last_op' = Op("log_chat_message", next_id, TRUE)
          /\ \/ log_id' = next_id
             \/ log_id' = NoId
          /\ hist' = Append(hist, H("create", next_id, TRUE))
       \/ /\ path = "ask" \/ has_question
          /\ log_id' = NoId
          /\ hist' = Append(hist, H("create", NoId, FALSE))
          /\ UNCHANGED <<store, next_id, now, last_op>>
    /\ pc' = "invoke"
    /\ UNCHANGED <<n_calls, path, has_question, messages, conv,
                   is_embedded, start_time, consumed,
                   final_response, response_parts, frames>>

\* The engine is started; the history keeps how many reference blocks the
\* conversation holds at that moment.
InvokeEngine ==
    /\ pc = "invoke"
    /\ hist' = Append(hist, H("invoke", Len(conv.reference), TRUE))
    /\ pc' = "next"
    /\ UNCHANGED store_vars
    /\ UNCHANGED <<path, has_question, messages, conv,
                   is_embedded, log_id, start_time, consumed,
                   final_response, response_parts, frames>>

\* The engine yields a partial answer; completion structures it first.
EngineYield ==
    /\ pc = "next"
    /\ Len(consumed) < MaxAnswers
    /\ \E a \in Answers :
          /\ consumed' = Append(consumed, a)
          /\ conv' = IF path = "ask" THEN conv
                     ELSE structure_answer(conv, a, message_id(messages))
    /\ hist' = Append(hist, H("consume", Len(consumed) + 1, TRUE))
    /\ pc' = IF checks_flag(path) THEN "flag_check" ELSE "collect"
    /\ UNCHANGED store_vars
    /\ UNCHANGED <<path, has_question, messages,
                   is_embedded, log_id, start_time,
                   final_response, response_parts, frames>>

EngineExhausted ==
    /\ pc = "next"
    /\ hist' = Append(hist, H("exhausted", n_ans, TRUE))
    /\ pc' = "finalize"
    /\ UNCHANGED store_vars
    /\ UNCHANGED <<path, has_question, messages, conv,
                   is_embedded, log_id, start_time, consumed,
                   final_response, response_parts, frames>>

\* A variant in which the log is still finalized after the engine failed.
EngineRaises_Finalizes ==
    /\ pc = "next"
    /\ hist' = Append(hist, H("raise", n_ans, FALSE))
    /\ pc' = "finalize"
    /\ UNCHANGED store_vars
    /\ UNCHANGED <<path, has_question, messages, conv,
                   is_embedded, log_id, start_time, consumed,
                   final_response, response_parts, frames>>

EngineRaises ==
    /\ pc = "next"
    /\ hist' = Append(hist, H("raise", n_ans, FALSE))
    /\ IF path \in Streams
       THEN pc' = "error" /\ frames' = frames
       ELSE pc' = "done" /\ frames' = Append(frames, Frame("server_error", 0))
    /\ UNCHANGED store_vars
    /\ UNCHANGED <<path, has_question, messages, conv,
                   is_embedded, log_id, start_time, consumed,
                   final_response, response_parts>>

\* A variant in which a failed flagging update ends the answer loop.
FlagCheck_Interrupts ==
    /\ pc = "flag_check"
    /\ \/ /\ ~ans.is_flagged
          /\ UNCHANGED <<store, now, last_op, hist>>
       \/ /\ ans.is_flagged
          /\ log_id = NoId
          /\ UNCHANGED <<store, now, last_op, hist>>
       \/ /\ ans.is_flagged
          /\ log_id # NoId
          /\ \E t1 \in ClockReads :
             \E t2 \in ReadsAfter(t1) :
                /\ store' = update_by_id(store, log_id,
                                flagged_log_update(path, ans, t1 - start_time, t2))
                /\ now' = t2
          /\ last_op' = Op("update_log_with_flagging", log_id, update_ok(store, log_id))
          /\ hist' = Append(hist, H("flag_update", n_ans, update_ok(store, log_id)))
       \/ /\ ans.is_flagged
          /\ log_id # NoId
          /\ hist' = Append(hist, H("flag_update", n_ans, FALSE))
          /\ UNCHANGED <<store, now, last_op>>
    /\ pc' = IF hist' # hist /\ ~hist'[Len(hist')].ok THEN "error" ELSE "collect"
    /\ UNCHANGED <<next_id, n_calls, path, has_question, messages, conv,
                   is_embedded, log_id,
                   start_time, consumed, final_response, response_parts, frames>>

FlagCheck ==
    /\ pc = "flag_check"
    /\ \/ /\ ~ans.is_flagged
          /\ UNCHANGED <<store, now, last_op, hist>>
       \/ /\ ans.is_flagged
          /\ log_id = NoId
          /\ UNCHANGED <<store, now, last_op, hist>>
       \/ /\ ans.is_flagged
          /\ log_id # NoId
          /\ \E t1 \in ClockReads :
             \E t2 \in ReadsAfter(t1) :
                /\ store' = update_by_id(store, log_id,
                                flagged_log_update(path, ans, t1 - start_time, t2))
                /\ now' = t2
          /\ last_op' = Op("update_log_with_flagging", log_id, update_ok(store, log_id))
          /\ hist' = Append(hist, H("flag_update", n_ans, update_ok(store, log_id)))
       \/ /\ ans.is_flagged
          /\ log_id # NoId
          /\ hist' = Append(hist, H("flag_update", n_ans, FALSE))
          /\ UNCHANGED <<store, now, last_op>>
    /\ pc' = "collect"
    /\ UNCHANGED <<next_id, n_calls, path, has_question, messages, conv,
                   is_embedded, log_id,
                   start_time, consumed, final_response, response_parts, frames>>

\* A variant that writes the response to the log after every partial answer.
EmitAnswer_LogsEachAnswer ==
    /\ pc = "collect"
    /\ path \in Streams
    /\ final_response' = IF ans.answer # << >> THEN ans.answer ELSE final_response
    /\ frames' = Append(frames, Frame("answer", n_ans))
    /\ IF log_id # NoId /\ final_response' # << >>
       THEN /\ store' = update_by_id(store, log_id,
                             final_log_update(final_response', now - start_time, now))
            /\ last_op' = Op("update_response", log_id, update_ok(store, log_id))
            /\ hist' = hist \o <<H("response_update", n_ans, update_ok(store, log_id)),
                                  H("emit", n_ans, TRUE)>>
       ELSE /\ hist' = Append(hist, H("emit", n_ans, TRUE))
            /\ UNCHANGED <<store, last_op>>
    /\ pc' = "next"
    /\ UNCHANGED <<next_id, now, n_calls, path, has_question, messages, conv,
                   is_embedded, log_id,
                   start_time, consumed, response_parts>>

EmitAnswer ==
    /\ pc = "collect"
    /\ path \in Streams
    /\ final_response' = IF ans.answer # << >> THEN ans.answer ELSE final_response
    /\ frames' = Append(frames, Frame("answer", n_ans))
    /\ hist' = Append(hist, H("emit", n_ans, TRUE))
    /\ pc' = "next"
    /\ UNCHANGED store_vars
    /\ UNCHANGED <<path, has_question, messages, conv,
                   is_embedded, log_id, start_time, consumed,
                   response_parts>>

CollectAnswer ==
    /\ pc = "collect"
    /\ path = "completion"
    /\ response_parts' = IF ans.answer # << >> THEN Append(response_parts, ans.answer)
                         ELSE response_parts
    /\ \/ pc' = "finalize" /\ frames' = frames
       \/ /\ ~is_embedded
          /\ pc' = "done"
          /\ frames' = Append(frames, Frame("server_error", 0))
    /\ UNCHANGED store_vars
    /\ UNCHANGED <<path, has_question, messages, conv,
                   is_embedded, log_id, start_time, consumed,
                   final_response, hist>>

FinalizeLog ==
    /\ pc = "finalize"
    /\ LET text == final_text(path, final_response, response_parts)
       IN \/ /\ text = << >> \/ log_id = NoId
             /\ UNCHANGED <<store, now, last_op, hist>>
          \/ /\ text # << >>
             /\ log_id # NoId
             /\ \E t1 \in ClockReads :
                \E t2 \in ReadsAfter(t1) :
                   /\ store' = update_by_id(store, log_id,
                                   final_log_update(text, t1 - start_time, t2))
                   /\ now' = t2
             /\ last_op' = Op("update_response", log_id, update_ok(store, log_id))
             /\ hist' = Append(hist, H("response_update", n_ans, update_ok(store, log_id)))
          \/ /\ text # << >>
             /\ log_id # NoId
             /\ hist' = Append(hist, H("response_update", n_ans, FALSE))
             /\ UNCHANGED <<store, now, last_op>>
    /\ pc' = CASE path = "completion_stream" -> "save_conv"
               [] path = "ask" -> "terminal"
               [] OTHER -> "respond"
    /\ UNCHANGED <<next_id, n_calls, path, has_question, messages, conv,
                   is_embedded, log_id,
                   start_time, consumed, final_response, response_parts, frames>>

SaveConversation ==
    /\ pc = "save_conv"
    /\ \/ pc' = "terminal"
       \/ ~is_embedded /\ pc' = "error"
    /\ UNCHANGED store_vars
    /\ UNCHANGED <<path, has_question, messages, conv,
                   is_embedded, log_id, start_time, consumed,
                   final_response, response_parts, frames, hist>>

\* A variant that swallows the failure without telling the caller.
EmitError_Silent ==
    /\ pc = "error"
    /\ pc' = "error_sent"
    /\ UNCHANGED store_vars
    /\ UNCHANGED <<path, has_question, messages, conv,
                   is_embedded, log_id, start_time, consumed,
                   final_response, response_parts, frames, hist>>

\* A variant that ends the stream right after the error event.
EmitError_Returns ==
    /\ pc = "error"
    /\ frames' = Append(frames, Frame("error", 500))
    /\ pc' = "done"
    /\ UNCHANGED store_vars
    /\ UNCHANGED <<path, has_question, messages, conv,
                   is_embedded, log_id, start_time, consumed,
                   final_response, response_parts, hist>>

EmitError ==
    /\ pc = "error"
    /\ frames' = Append(frames, Frame("error", 500))
    /\ pc' = "error_sent"
    /\ UNCHANGED store_vars
    /\ UNCHANGED <<path, has_question, messages, conv,
                   is_embedded, log_id, start_time, consumed,
                   final_response, response_parts, hist>>

EmitTerminal ==
    /\ pc \in {"terminal", "error_sent"}
    /\ frames' = Append(frames, Frame("terminal", 0))
    /\ pc' = "done"
    /\ UNCHANGED store_vars
    /\ UNCHANGED <<path, has_question, messages, conv,
                   is_embedded, log_id, start_time, consumed,
                   final_response, response_parts, hist>>

Respond ==
    /\ pc = "respond"
    /\ frames' = Append(frames, Frame("json", n_ans))
    /\ pc' = "done"
    /\ UNCHANGED store_vars
    /\ UNCHANGED <<path, has_question, messages, conv,
                   is_embedded, log_id, start_time, consumed,
                   final_response, response_parts, hist>>

\* Another request purges a tenant's logs while the turn runs.
\* A purge that removes nothing is not seen by the turn.
ConcurrentPurge ==
    \E t \in Tenants :
        /\ delete_count(store, t) > 0
        /\ delete_all_logs(t)

\* A variant in which the generator finalizes the log when it is closed.
Disconnect_Finalizes ==
    /\ path \in Streams
    /\ \/ pc = "invoke"
       \/ pc = "next" /\ frames # << >>
       \/ pc = "error_sent"
    /\ pc' = IF pc = "next" THEN "finalize" ELSE "closed"
    /\ UNCHANGED store_vars
    /\ UNCHANGED <<path, has_question, messages, conv,
                   is_embedded, log_id, start_time, consumed,
                   final_response, response_parts, frames, hist>>

\* The caller stops pulling the stream while the generator is suspended.
Disconnect ==
    /\ path \in Streams
    /\ \/ pc = "invoke"
       \/ pc = "next" /\ frames # << >>
       \/ pc = "error_sent"
    /\ pc' = "closed"
    /\ UNCHANGED store_vars
    /\ UNCHANGED <<path, has_question, messages, conv,
                   is_embedded, log_id, start_time, consumed,
                   final_response, response_parts, frames, hist>>

Next ==
    \/ ConcurrentPurge
    \/ Completion
    \/ AskAbout
    \/ CreateInitialLog
    \/ InvokeEngine
    \/ EngineYield
    \/ EngineExhausted
    \/ EngineRaises
    \/ FlagCheck
    \/ EmitAnswer
    \/ CollectAnswer
    \/ FinalizeLog
    \/ SaveConversation
    \/ EmitError
    \/ EmitTerminal
    \/ Respond
    \/ Disconnect

Spec == Init /\ [][Next]_vars

--------------------------------------------------------------------------
(* The query side: the ChatLogService queries and the routes of          *)
(* api/apps/chat_log_app.py. In the entries these read, user_id, question *)
(* and the search term are sequences of characters; the clock counts      *)
(* days, so the date of a create_time is the create_time.                 *)

\* Python's min and max of two numbers.
min(a, b) == IF a < b THEN a ELSE b
max(a, b) == IF a > b THEN a ELSE b

\* str.lower()
lower_char(c) ==
    CASE c = "A" -> "a"
      [] c = "B" -> "b"
      [] c = "U" -> "u"
      [] OTHER -> c
lower(s) == [i \in 1..Len(s) |-> lower_char(s[i])]

\* t in s
contains(t, s) == \E i \in 0..(Len(s) - Len(t)) : SubSeq(s, i + 1, i + Len(t)) = t

\* The text of a query parameter that int() reads, and one it rejects.
IntText(n) == [int |-> TRUE, v |-> n]
NotAnInt == [int |-> FALSE, v |-> 0]

\* The text of a date parameter: "YYYY-MM-DD" of day d, and a text
\* strptime(..., "%Y-%m-%d") rejects.
DateText(d) == [valid |-> TRUE, day |-> d]
NotADate == [valid |-> FALSE, day |-> 0]

\* request.args.get(name, default); a parameter is None or Some(text).
args_get(p, default) == IF p = None THEN default ELSE p[1]

\* log.create_time.date()
DateOf(t) == t

get_json_result(data) == [kind |-> "json", message |-> "success", data |-> data]
get_data_error_result(message) == [kind |-> "data_error", message |-> message, data |-> << >>]
server_error_response(e) == [kind |-> "server_error", message |-> e, data |-> << >>]

NoTenant == "User not associated with any tenant"

\* Keyword arguments of a query.
NoArgs == [k \in {} |-> TRUE]
Arg(k, v) == [x \in {k} |-> v]
Merge(f, g) == [k \in DOMAIN f \cup DOMAIN g |-> IF k \in DOMAIN f THEN f[k] ELSE g[k]]

\* CommonService.query(**args): the rows equal to args on the fields it names.
rows(s, args) == {s[i] : i \in {j \in DOMAIN s : \A f \in DOMAIN args : s[j][f] = args[f]}}

\* order_by=create_time, reverse: what the order leaves open (rows of equal
\* create_time) comes in any order.
ordered(q, reverse) ==
    \A i, j \in 1..Len(q) :
        i < j => IF reverse THEN q[i].create_time >= q[j].create_time
                 ELSE q[i].create_time <= q[j].create_time

\* CommonService.query(**args, order_by=create_time, reverse=reverse): every
\* sequence it may return.
query(s, args, reverse) ==
    LET found == rows(s, args)
        n == Cardinality(found)
    IN {q \in [1..n -> found] :
           /\ \A i, j \in 1..n : i # j => q[i] # q[j]
           /\ ordered(q, reverse)}

\* q[:limit]
slice_to(q, limit) ==
    IF limit >= 0 THEN SubSeq(q, 1, min(limit, Len(q)))
    ELSE SubSeq(q, 1, max(Len(q) + limit, 0))

\* q[offset:offset + limit], 0 <= offset, 0 < limit
slice(q, offset, limit) == SubSeq(q, offset + 1, min(offset + limit, Len(q)))

\* ChatLogService.get_flagged_logs(tenant_id, limit)
get_flagged_logs(s, tenant_id, limit) ==
    LET query_args == Merge(Arg("is_flagged", TRUE),
                            IF tenant_id # NULL THEN Arg("tenant_id", tenant_id) ELSE NoArgs)
    IN {IF limit # 0 THEN slice_to(q, limit) ELSE q : q \in query(s, query_args, TRUE)}

\* ChatLogService.get_logs_by_user(user_id, tenant_id, limit)
get_logs_by_user(s, user_id, tenant_id, limit) ==
    LET query_args == Merge(Arg("user_id", user_id),
                            IF tenant_id # NULL THEN Arg("tenant_id", tenant_id) ELSE NoArgs)
    IN {IF limit # 0 THEN slice_to(q, limit) ELSE q : q \in query(s, query_args, TRUE)}

\* A variant that reads the conversation latest first, as the other queries do.
get_logs_by_conversation_Descending(s, conversation_id) ==
    query(s, Arg("conversation_id", conversation_id), TRUE)

\* ChatLogService.get_logs_by_conversation(conversation_id)
get_logs_by_conversation(s, conversation_id) ==
    query(s, Arg("conversation_id", conversation_id), FALSE)

RECURSIVE Sum(_, _)
Sum(S, f) ==
    IF S = {} THEN 0
    ELSE LET x == CHOOSE x \in S : TRUE IN x[f] + Sum(S \ {x}, f)

\* a / b, Python's true division, kept as the pair; the number 0 is Zero.
\* A pair with denominator 0 is the ZeroDivisionError the division raises.
Quotient(a, b) == <<a, b>>
Zero == Quotient(0, 1)
ZeroDivisionError(x) == x[2] = 0

\* A variant that divides whatever the selection holds.
get_statistics_DividesAlways(s, tenant_id, start_date, end_date) ==
    LET all_logs == {log \in rows(s, IF tenant_id # NULL THEN Arg("tenant_id", tenant_id)
                                      ELSE NoArgs) :
                        /\ ~(log.create_time < start_date)
                        /\ ~(log.create_time > end_date)}
        total_logs == Cardinality(all_logs)
        flagged_logs == Cardinality({log \in all_logs : log.is_flagged})
    IN [total_logs |-> total_logs,
        normal_logs |-> total_logs - flagged_logs,
        flagged_logs |-> flagged_logs,
        flagged_percentage |-> Quotient(flagged_logs * 100, total_logs),
        total_tokens_used |-> Sum(all_logs, "tokens_used"),
        average_response_time |-> Quotient(Sum(all_logs, "response_time"), total_logs)]

\* ChatLogService.get_statistics(tenant_id, start_date, end_date), with both
\* dates given as the route gives them. A result that is 0 is the number 0.
get_statistics(s, tenant_id, start_date, end_date) ==
    LET all_logs == {log \in rows(s, IF tenant_id # NULL THEN Arg("tenant_id", tenant_id)
                                      ELSE NoArgs) :
                        /\ ~(log.create_time < start_date)
                        /\ ~(log.create_time > end_date)}
        total_logs == Cardinality(all_logs)
        flagged_logs == Cardinality({log \in all_logs : log.is_flagged})
    IN [total_logs |-> total_logs,
        normal_logs |-> total_logs - flagged_logs,
        flagged_logs |-> flagged_logs,
        flagged_percentage |-> IF total_logs > 0 THEN Quotient(flagged_logs * 100, total_logs)
                               ELSE Zero,
        total_tokens_used |-> Sum(all_logs, "tokens_used"),
        average_response_time |-> IF total_logs > 0
                                  THEN Quotient(Sum(all_logs, "response_time"), total_logs)
                                  ELSE Zero]

\* list_logs: the search test of one entry.
search_matches(search_lower, log) ==
    \/ contains(search_lower, lower(log.question))
    \/ /\ log.response # None
       /\ log.response # Some(<< >>)
       /\ contains(search_lower, lower(log.response[1]))
    \/ contains(search_lower, lower(log.user_id))

\* list_logs, export_logs: the date loop. It parses a date only when it
\* reaches it for some entry; error names the date whose parse raised.
RECURSIVE date_filter(_, _, _)
date_filter(logs, start_date, end_date) ==
    IF logs = << >> THEN [error |-> "none", logs |-> << >>]
    ELSE LET log == Head(logs)
             log_date == DateOf(log.create_time)
             rest == date_filter(Tail(logs), start_date, end_date)
         IN IF start_date # None /\ ~start_date[1].valid
            THEN [error |-> "start_date", logs |-> << >>]
            ELSE IF start_date # None /\ log_date < start_date[1].day
            THEN rest
            ELSE IF end_date # None /\ ~end_date[1].valid
            THEN [error |-> "end_date", logs |-> << >>]
            ELSE IF end_date # None /\ log_date > end_date[1].day
            THEN rest
            ELSE IF rest.error # "none" THEN rest
            ELSE [error |-> "none", logs |-> <<log>> \o rest.logs]

InvalidDate(which) ==
    IF which = "start_date" THEN "Invalid start_date format. Use YYYY-MM-DD"
    ELSE "Invalid end_date format. Use YYYY-MM-DD"

\* What a route did: its response and, where it filters, the value of its
\* local `logs` when it stopped.
Handled(response, logs) == [response |-> response, logs |-> logs]

\* list_logs: filter_user_id and filter_user_id != "all"
ALL == <<"a", "l", "l">>
filters_user(user_id) == user_id # None /\ user_id # Some(<< >>) /\ user_id # Some(ALL)

\* list_logs: the query arguments the flag parameter adds.
flag_args(flag_filter) ==
    CASE flag_filter = "flagged" -> Arg("is_flagged", TRUE)
      [] flag_filter = "unflagged" -> Arg("is_flagged", FALSE)
      [] flag_filter = "inappropriate" -> Arg("flag_reason", "inappropriate")
      [] flag_filter = "out-of-scope" -> Arg("flag_reason", "out of scope")
      [] OTHER -> NoArgs

\* A variant that counts the totals over the entries the flag filter keeps.
totals_of_AfterFlag(s, tenant_id, req) ==
    LET all_logs == rows(s, Merge(Arg("tenant_id", tenant_id), flag_args(req.flag)))
        counted == IF filters_user(req.user_id)
                   THEN {log \in all_logs : log.user_id = req.user_id[1]}
                   ELSE all_logs
    IN [total_chats |-> Cardinality(counted),
        total_flagged |-> Cardinality({log \in counted : log.is_flagged}),
        total_out_scope |-> Cardinality({log \in counted : log.flag_reason = "out of scope"})]

\* list_logs: the totals.
totals_of(s, tenant_id, req) ==
    LET all_logs == rows(s, Arg("tenant_id", tenant_id))
        counted == IF filters_user(req.user_id)
                   THEN {log \in all_logs : log.user_id = req.user_id[1]}
                   ELSE all_logs
    IN [total_chats |-> Cardinality(counted),
        total_flagged |-> Cardinality({log \in counted : log.is_flagged}),
        total_out_scope |-> Cardinality({log \in counted : log.flag_reason = "out of scope"})]

\* A variant that starts the page one page further.
offset_of_FromPage(page, limit) == page * limit

\* list_logs: offset
offset_of(page, limit) == (page - 1) * limit

\* A variant that compares the term with the texts as they were typed.
search_filter_CaseSensitive(logs, search_term) ==
    IF search_term # None /\ search_term # Some(<< >>)
    THEN SelectSeq(logs, LAMBDA log :
             \/ contains(search_term[1], log.question)
             \/ log.response # None /\ contains(search_term[1], log.response[1])
             \/ contains(search_term[1], log.user_id))
    ELSE logs

\* list_logs: the search filter.
search_filter(logs, search_term) ==
    IF search_term # None /\ search_term # Some(<< >>)
    THEN SelectSeq(logs, LAMBDA log : search_matches(lower(search_term[1]), log))
    ELSE logs

\* list_logs: the route, for a caller of tenant tenant_id (NULL: of none).
list_logs(s, tenant_id, req) ==
    LET page_text == args_get(req.page, IntText(1))
        limit_text == args_get(req.limit, IntText(50))
    IN IF ~page_text.int \/ ~limit_text.int
       THEN {Handled(server_error_response("ValueError"), << >>)}
       ELSE
       LET limit_read == min(limit_text.v, 200)
           page == IF page_text.v < 1 THEN 1 ELSE page_text.v
           limit == IF limit_read < 1 THEN 1 ELSE limit_read
           offset == offset_of(page, limit)
       IN IF tenant_id = NULL
          THEN {Handled(get_data_error_result(NoTenant), << >>)}
          ELSE
          LET totals == totals_of(s, tenant_id, req)
              query_args ==
                  Merge(Arg("tenant_id", tenant_id),
                        Merge(IF filters_user(req.user_id)
                              THEN Arg("user_id", req.user_id[1]) ELSE NoArgs,
                              flag_args(req.flag)))
              page_of(found) ==
                  LET searched == search_filter(found, req.search)
                      dated == IF req.start_date # None \/ req.end_date # None
                               THEN date_filter(searched, req.start_date, req.end_date)
                               ELSE [error |-> "none", logs |-> searched]
                      total_count == Len(dated.logs)
                  IN IF dated.error # "none"
                     THEN Handled(get_data_error_result(InvalidDate(dated.error)), searched)
                     ELSE Handled(
                            get_json_result(
                              [logs |-> slice(dated.logs, offset, limit),
                               pagination |-> [page |-> page,
                                               limit |-> limit,
                                               total |-> total_count,
                                               pages |-> (total_count + limit - 1) \div limit],
                               totals |-> totals]),
                            dated.logs)
          IN {page_of(found) : found \in query(s, query_args, TRUE)}

\* get_flagged_logs, get_user_logs: limit
flagged_limit(limit_text) == min(limit_text.v, 200)

\* get_flagged_logs: the route.
get_flagged_logs_route(s, tenant_id, req) ==
    LET limit_text == args_get(req.limit, IntText(100))
    IN IF ~limit_text.int
       THEN {Handled(server_error_response("ValueError"), << >>)}
       ELSE IF tenant_id = NULL
       THEN {Handled(get_data_error_result(NoTenant), << >>)}
       ELSE {Handled(get_json_result([flagged_logs |-> found, count |-> Len(found)]), found) :
                found \in get_flagged_logs(s, tenant_id, flagged_limit(limit_text))}

\* get_user_logs: the route.
get_user_logs(s, tenant_id, req) ==
    LET limit_text == args_get(req.limit, IntText(100))
    IN IF ~limit_text.int
       THEN {Handled(server_error_response("ValueError"), << >>)}
       ELSE IF tenant_id = NULL
       THEN {Handled(get_data_error_result(NoTenant), << >>)}
       ELSE {Handled(get_json_result([user_logs |-> found, user_id |-> req.user_id,
                                      count |-> Len(found)]), found) :
                found \in get_logs_by_user(s, req.user_id, tenant_id,
                                           flagged_limit(limit_text))}

\* get_conversation_logs: the route.
\* A variant that returns what the conversation holds, whoever logged it.
get_conversation_logs_AnyTenant(s, tenant_id, req) ==
    IF tenant_id = NULL
    THEN {Handled(get_data_error_result(NoTenant), << >>)}
    ELSE {Handled(get_json_result([conversation_logs |-> found,
                                   conversation_id |-> req.conversation_id,
                                   count |-> Len(found)]),
                  found) :
             found \in get_logs_by_conversation(s, req.conversation_id)}

get_conversation_logs(s, tenant_id, req) ==
    IF tenant_id = NULL
    THEN {Handled(get_data_error_result(NoTenant), << >>)}
    ELSE {LET user_tenant_logs == SelectSeq(found, LAMBDA log : log.tenant_id = tenant_id)
          IN IF found # << >> /\ user_tenant_logs = << >>
             THEN Handled(get_data_error_result("Access denied to conversation logs"), found)
             ELSE Handled(get_json_result([conversation_logs |-> user_tenant_logs,
                                           conversation_id |-> req.conversation_id,
                                           count |-> Len(user_tenant_logs)]),
                          user_tenant_logs) :
             found \in get_logs_by_conversation(s, req.conversation_id)}

\* get_statistics: the route. now is its read of datetime.now().
get_statistics_route(s, tenant_id, req, t) ==
    LET days_text == args_get(req.days, IntText(30))
    IN IF ~days_text.int
       THEN server_error_response("ValueError")
       ELSE IF tenant_id = NULL
       THEN get_data_error_result(NoTenant)
       ELSE LET stats == get_statistics(s, tenant_id, t - days_text.v, t)
            IN IF ZeroDivisionError(stats.flagged_percentage)
                  \/ ZeroDivisionError(stats.average_response_time)
               THEN server_error_response("division by zero")
               ELSE get_json_result(stats)

\* export_logs: the columns of the CSV export.
fieldnames ==
    <<"id", "create_time", "user_id", "question", "response",
      "is_flagged", "log_type", "flag_reason", "source",
      "tokens_used", "response_time", "dialog_id", "conversation_id">>

\* str() of a bool
str_bool(b) == IF b THEN "True" ELSE "False"

\* What the csv writer puts in the cell of a field: the text of the value,
\* nothing for None and for a field the row lacks.
csv_cell_WritesNone(log, field) ==
    IF field \notin DOMAIN log THEN << >>
    ELSE CASE field \in {"id", "create_time", "tokens_used", "response_time"} ->
                 <<IntText(log[field])>>
           [] field = "is_flagged" -> <<str_bool(log[field])>>
           [] field = "response" ->
                 IF log[field] = None THEN <<"None">> ELSE log[field][1]
           [] field \in {"user_id", "question"} -> log[field]
           [] OTHER -> IF log[field] = NULL THEN <<"None">> ELSE <<log[field]>>

csv_cell(log, field) ==
    IF field \notin DOMAIN log THEN << >>
    ELSE CASE field \in {"id", "create_time", "tokens_used", "response_time"} ->
                 <<IntText(log[field])>>
           [] field = "is_flagged" -> <<str_bool(log[field])>>
           [] field = "response" ->
                 IF log[field] = None THEN << >> ELSE log[field][1]
           [] field \in {"user_id", "question"} -> log[field]
           [] OTHER -> IF log[field] = NULL THEN << >> ELSE <<log[field]>>

\* export_logs: csv_row, as writer.writerow writes it
csv_row(log) == [i \in 1..Len(fieldnames) |-> csv_cell(log, fieldnames[i])]

\* export_logs: the route. req.format is the format parameter in lower case.
export_logs(s, tenant_id, req) ==
    IF req.format \notin {"csv", "json"}
    THEN {Handled(get_data_error_result("Invalid format. Must be 'csv' or 'json'"), << >>)}
    ELSE IF tenant_id = NULL
    THEN {Handled(get_data_error_result(NoTenant), << >>)}
    ELSE
    LET query_args == Merge(Arg("tenant_id", tenant_id),
                            IF req.log_type # NULL THEN Arg("log_type", req.log_type)
                            ELSE NoArgs)
        export_of(found) ==
            LET dated == IF req.start_date # None \/ req.end_date # None
                         THEN date_filter(found, req.start_date, req.end_date)
                         ELSE [error |-> "none", logs |-> found]
            IN IF dated.error # "none"
               THEN Handled(get_data_error_result(InvalidDate(dated.error)), found)
               ELSE IF req.format = "json"
               THEN Handled(get_json_result([logs |-> dated.logs,
                                             total_count |-> Len(dated.logs)]),
                            dated.logs)
               ELSE Handled([kind |-> "csv", message |-> "attachment",
                             data |-> [header |-> fieldnames,
                                       rows |-> [i \in 1..Len(dated.logs) |->
                                                    csv_row(dated.logs[i])]]],
                            dated.logs)
    IN {export_of(found) : found \in query(s, query_args, TRUE)}

--------------------------------------------------------------------------
(* The routes called on a store that turns have filled *)

U1 == <<"u", "1">>
U2 == <<"U", "2">>

\* The entries the turns have logged: what log_chat_message was called with.
Chats ==
    {[LogArgs("t1", U1, <<"A", "b">>) EXCEPT !.conversation_id = "c1"],
     [LogArgs("t1", U2, <<"b">>) EXCEPT
         !.response = Some(<<"B", "a">>), !.is_flagged = TRUE,
         !.flag_reason = "out of scope", !.conversation_id = "c1",
         !.tokens_used = 5, !.response_time = 1],
     [LogArgs("t1", U1, <<"c">>) EXCEPT
         !.response = Some(<<"a">>), !.is_flagged = TRUE,
         !.flag_reason = "inappropriate", !.conversation_id = "c2"],
     [LogArgs("t2", U1, <<"A", "b">>) EXCEPT
         !.response = Some(<< >>), !.is_flagged = TRUE,
         !.flag_reason = "out of scope", !.conversation_id = "c1"]}

\* The caller's tenant: tenants[0].tenant_id, NULL when the caller has none.
Caller == "t1"

Dates == {None, Some(DateText(0)), Some(DateText(1)), Some(NotADate)}

ListReq(caller, page, limit, user_id, flag, search, start_date, end_date) ==
    [caller |-> caller, page |-> page, limit |-> limit, user_id |-> user_id,
     flag |-> flag, search |-> search, start_date |-> start_date,
     end_date |-> end_date]

\* The requests of /list: every page and limit with and without a search
\* term, every user and flag filter with every search term, every pair of
\* dates with a flag filter, and a caller of no tenant.
ListRequests ==
    {ListReq(Caller, p, l, None, "all", q, None, None) :
        p \in {None, Some(IntText(0)), Some(IntText(2)), Some(IntText(3)), Some(NotAnInt)},
        l \in {None, Some(IntText(0)), Some(IntText(1)), Some(IntText(201)), Some(NotAnInt)},
        q \in {None, Some(<<"a">>)}}
    \cup
    {ListReq(Caller, None, None, u, f, q, None, None) :
        u \in {None, Some(U1), Some(ALL)},
        f \in {"all", "flagged", "unflagged", "inappropriate", "out-of-scope", "other"},
        q \in {None, Some(<<"B">>), Some(<<"u">>)}}
    \cup
    {ListReq(Caller, None, None, None, f, q, d1, d2) :
        f \in {"all", "unflagged"}, q \in {None, Some(<<"a">>)},
        d1 \in Dates, d2 \in Dates}
    \cup
    {ListReq(NULL, None, None, None, "all", None, None, Some(NotADate))}

Limits == {None, Some(IntText(-1)), Some(IntText(0)), Some(IntText(1)),
           Some(IntText(201)), Some(NotAnInt)}

FlaggedRequests ==
    {[caller |-> Caller, limit |-> l] : l \in Limits}
    \cup {[caller |-> NULL, limit |-> None]}

UserRequests ==
    {[caller |-> Caller, user_id |-> u, limit |-> l] :
        u \in {U1, U2}, l \in {None, Some(IntText(1))}}

ConversationRequests ==
    {[caller |-> c, conversation_id |-> id] : c \in {Caller, "t2"}, id \in {"c1", "c2"}}

StatisticsRequests ==
    {[caller |-> Caller, days |-> d] :
        d \in {None, Some(IntText(0)), Some(IntText(-1)), Some(NotAnInt)}}
    \cup {[caller |-> "t2", days |-> None]}

ExportRequests ==
    {[caller |-> Caller, log_type |-> NULL, start_date |-> d1, end_date |-> d2,
      format |-> f] : d1 \in Dates, d2 \in Dates, f \in {"csv", "json"}}
    \cup
    {[caller |-> Caller, log_type |-> k, start_date |-> None, end_date |-> None,
      format |-> f] : k \in {"normal", "flagged"}, f \in {"csv", "json", "xml"}}

\* What the request got, kept with the request.
QueryOp(name, req, h) ==
    [op |-> name, id |-> NoId, ok |-> TRUE, req |-> req,
     res |-> h.response, logs |-> h.logs]

\* The routes read the store and change no entry, so what a request gets does
\* not depend on the requests answered before it: a request is taken in the
\* states in which the last operation was not a request.
Unanswered == last_op.op \in {"none", "log_chat_message"}

\* A turn logs its chat: log_chat_message.
RecordChat ==
    /\ next_id <= MaxLogs
    /\ \E a \in Chats, t1 \in ClockReads :
       \E t2 \in ReadsAfter(t1) :
          /\ store' = save(store, log_data(next_id, a, t1, t2))
          /\ now' = t2
    /\ next_id' = next_id + 1
    /\ last_op' = Op("log_chat_message", next_id, TRUE)
    /\ UNCHANGED n_calls
    /\ UNCHANGED turn_vars

ListLogs ==
    /\ Unanswered
    /\ \E req \in ListRequests :
       \E h \in list_logs(store, req.caller, req) :
          last_op' = QueryOp("list_logs", req, h)
    /\ UNCHANGED <<store, next_id, now, n_calls>>
    /\ UNCHANGED turn_vars

GetFlaggedLogs ==
    /\ Unanswered
    /\ \E req \in FlaggedRequests :
       \E h \in get_flagged_logs_route(store, req.caller, req) :
          last_op' = QueryOp("get_flagged_logs", req, h)
    /\ UNCHANGED <<store, next_id, now, n_calls>>
    /\ UNCHANGED turn_vars

GetUserLogs ==
    /\ Unanswered
    /\ \E req \in UserRequests :
       \E h \in get_user_logs(store, req.caller, req) :
          last_op' = QueryOp("get_user_logs", req, h)
    /\ UNCHANGED <<store, next_id, now, n_calls>>
    /\ UNCHANGED turn_vars

GetConversationLogs ==
    /\ Unanswered
    /\ \E req \in ConversationRequests :
       \E h \in get_conversation_logs(store, req.caller, req) :
          last_op' = QueryOp("get_conversation_logs", req, h)
    /\ UNCHANGED <<store, next_id, now, n_calls>>
    /\ UNCHANGED turn_vars

GetStatistics ==
    /\ Unanswered
    /\ \E req \in StatisticsRequests, t \in ClockReads :
          /\ now' = t
          /\ last_op' = QueryOp("get_statistics", req,
                            Handled(get_statistics_route(store, req.caller, req, t), << >>))
    /\ UNCHANGED <<store, next_id, n_calls>>
    /\ UNCHANGED turn_vars

ExportLogs ==
    /\ Unanswered
    /\ \E req \in ExportRequests :
       \E h \in export_logs(store, req.caller, req) :
          last_op' = QueryOp("export_logs", req, h)
    /\ UNCHANGED <<store, next_id, now, n_calls>>
    /\ UNCHANGED turn_vars

QueryNext ==
    \/ RecordChat
    \/ ListLogs
    \/ GetFlaggedLogs
    \/ GetUserLogs
    \/ GetConversationLogs
    \/ GetStatistics
    \/ ExportLogs

QuerySpec == Init /\ [][QueryNext]_vars

--------------------------------------------------------------------------
(* The relevance check: api/services/zain_flagger.py. The model's reply is *)
(* a sequence of tokens: a verdict word, ":", whitespace, a word of text.  *)

MaxReply == 4

\* str.upper() of one token
upper_token(c) ==
    CASE c = "flag" -> "FLAG"
      [] c = "Flag" -> "FLAG"
      [] c = "allow" -> "ALLOW"
      [] c = "r" -> "R"
      [] OTHER -> c

upper(s) == [i \in 1..Len(s) |-> upper_token(s[i])]

startswith(s, prefix) ==
    Len(s) >= Len(prefix) /\ SubSeq(s, 1, Len(prefix)) = prefix

\* raw.split(":", 1)[1]: what follows the first ":".
after_colon(raw) ==
    LET j == CHOOSE j \in 1..Len(raw) :
                 raw[j] = ":" /\ \A k \in 1..(j - 1) : raw[k] # ":"
    IN SubSeq(raw, j + 1, Len(raw))

\* What a call that may raise gives back.
Returned(v) == [raised |-> FALSE, value |-> v]
Raises == [raised |-> TRUE, value |-> << >>]

\* _get_document_names: the names of the linked knowledge bases' documents;
\* any failure of the lookup gives the empty list.
get_document_names_Propagates(kb_ids, lookup) ==
    IF kb_ids = << >> THEN Returned(<< >>)
    ELSE IF lookup.raised THEN Raises
    ELSE Returned(lookup.value)

get_document_names(kb_ids, lookup) ==
    IF kb_ids = << >> THEN Returned(<< >>)
    ELSE IF lookup.raised THEN Returned(<< >>)
    ELSE Returned(lookup.value)

Decision(is_answerable, reason) ==
    [is_answerable |-> is_answerable, reason |-> reason]

\* _llm_decide: (is_answerable, reason). llm is what llm_bundle.chat does
\* with the prompt: it raises, or returns a reply.
llm_decide_KeepsSpace(has_bundle, kb_ids, lookup, llm) ==
    IF ~has_bundle
    THEN Returned(Decision(TRUE, <<"LLM unavailable; default allow">>))
    ELSE
    LET doc_names == get_document_names(kb_ids, lookup)
    IN IF doc_names.raised THEN Raises
       ELSE IF llm.raised
       THEN Returned(Decision(TRUE, <<"LLM failure, allowing question: ", "e">>))
       ELSE
       LET raw == strip(llm.value)
       IN IF raw = << >>
          THEN Returned(Decision(TRUE, <<"Empty LLM response, allowing question">>))
          ELSE IF startswith(upper(raw), <<"ALLOW", ":">>)
          THEN Returned(Decision(TRUE, after_colon(raw)))
          ELSE IF startswith(upper(raw), <<"FLAG", ":">>)
          THEN Returned(Decision(FALSE, after_colon(raw)))
          ELSE Returned(Decision(TRUE,
                   <<"Unrecognized LLM response format, allowing: ">> \o raw))

llm_decide(has_bundle, kb_ids, lookup, llm) ==
    IF ~has_bundle
    THEN Returned(Decision(TRUE, <<"LLM unavailable; default allow">>))
    ELSE
    LET doc_names == get_document_names(kb_ids, lookup)
    IN IF doc_names.raised THEN Raises
       ELSE IF llm.raised
       THEN Returned(Decision(TRUE, <<"LLM failure, allowing question: ", "e">>))
       ELSE
       LET raw == strip(llm.value)
       IN IF raw = << >>
          THEN Returned(Decision(TRUE, <<"Empty LLM response, allowing question">>))
          ELSE IF startswith(upper(raw), <<"ALLOW", ":">>)
          THEN Returned(Decision(TRUE, strip(after_colon(raw))))
          ELSE IF startswith(upper(raw), <<"FLAG", ":">>)
          THEN Returned(Decision(FALSE, strip(after_colon(raw))))
          ELSE Returned(Decision(TRUE,
                   <<"Unrecognized LLM response format, allowing: ">> \o raw))

\* check_question: the decision made into the result the callers read.
check_question(has_bundle, question, kb_ids, use_llm, lookup, llm) ==
    LET d == llm_decide(has_bundle, IF use_llm THEN kb_ids ELSE << >>, lookup, llm)
    IN IF d.raised THEN Raises
       ELSE Returned(
            [is_related |-> d.value.is_answerable,
             is_flagged |-> ~d.value.is_answerable,
             reason |-> IF d.value.is_answerable
                        THEN <<"Answerable from KB: ">> \o d.value.reason
                        ELSE <<"Not answerable from KB: ">> \o d.value.reason,
             method |-> "llm_only",
             question |-> question,
             response_message |-> IF d.value.is_answerable THEN NULL
                                  ELSE "Your answer has been flagged"])

ReplyTokens == {"FLAG", "flag", "ALLOW", ":", WS, "r"}

RECURSIVE TextsUpTo(_, _)
TextsUpTo(tokens, n) ==
    IF n = 0 THEN {<< >>}
    ELSE LET shorter == TextsUpTo(tokens, n - 1)
         IN shorter \cup {Append(s, c) : s \in shorter, c \in tokens}

\* What the language model does: it raises, or it replies.
Replies == {Raises} \cup {Returned(s) : s \in TextsUpTo(ReplyTokens, MaxReply)}

\* What the document lookup does: it raises, or it finds names.
Lookups == {Raises, Returned(<< >>), Returned(<<"d1">>)}

CheckRequests ==
    {[has_bundle |-> b, question |-> <<"q">>, kb_ids |-> k, use_llm |-> u,
      lookup |-> l, llm |-> m] :
        b \in BOOLEAN, k \in {<< >>, <<"kb1">>}, u \in BOOLEAN, l \in Lookups,
        m \in Replies}

\* One question checked: ZainFlagger().check_question(question, kb_ids).
CheckQuestion ==
    /\ last_op.op = "none"
    /\ \E req \in CheckRequests :
          last_op' = [op |-> "check_question", id |-> NoId, ok |-> TRUE,
                      req |-> req,
                      res |-> check_question(req.has_bundle, req.question,
                                  req.kb_ids, req.use_llm, req.lookup, req.llm)]
    /\ UNCHANGED <<store, next_id, now, n_calls>>
    /\ UNCHANGED turn_vars

FlaggerNext == CheckQuestion

FlaggerSpec == Init /\ [][FlaggerNext]_vars

--------------------------------------------------------------------------
(* clean_think_content applied to any text *)

MaxText == 5

TextTokens == {OPEN, CLOSE, WS, "x"}

NestedExample == <<OPEN, "x", OPEN, "y", CLOSE, "z", CLOSE, "done">>

CleanTexts == TextsUpTo(TextTokens, MaxText) \cup {NestedExample}

\* clean_think_content(text)
CleanThinkContent ==
    /\ last_op.op = "none"
    /\ \E text \in CleanTexts :
          last_op' = [op |-> "clean_think_content", id |-> NoId, ok |-> TRUE,
                      req |-> text, res |-> clean_think_content(text)]
    /\ UNCHANGED <<store, next_id, now, n_calls>>
    /\ UNCHANGED turn_vars

CleanNext == CleanThinkContent

CleanSpec == Init /\ [][CleanNext]_vars

--------------------------------------------------------------------------
(* What a turn's history shows *)

Max(S) == CHOOSE x \in S : \A y \in S : y <= x
HistOps(op) == {i \in 1..Len(hist) : hist[i].op = op}
Has(op) == HistOps(op) # {}
Applied(op) == {i \in HistOps(op) : hist[i].ok}
FlagUpdates == HistOps("flag_update")
ResponseUpdates == HistOps("response_update")
FramesOf(kind) == {i \in 1..Len(frames) : frames[i].kind = kind}

NonEmptyAnswers == {k \in 1..Len(consumed) : consumed[k].answer # << >>}
LastNonEmptyText == consumed[Max(NonEmptyAnswers)].answer
ReasonWritten(a) == IF a.flag_reason = NULL THEN NoRelevantKnowledge ELSE a.flag_reason

Streamed == path \in Streams
HasLogEntry == log_id # NoId
Raised == Streamed /\ Has("raise")
StreamExhausted == Streamed /\ Has("exhausted") /\ pc # "finalize"

--------------------------------------------------------------------------
\* C1: in every reachable state of the store, every entry has
\* is_flagged = TRUE exactly when its log_type is "flagged".
C1_LogTypeMatchesFlag ==
    \A id \in DOMAIN store :
        store[id].is_flagged = (store[id].log_type = "flagged")

\* An entry created unflagged that a flagging update has flagged.
C1_Witness ==
    /\ last_op.op = "update_log_with_flagging"
    /\ last_op.ok
    /\ last_op.id \in DOMAIN store
    /\ store[last_op.id].is_flagged
    /\ store[last_op.id].log_type = "flagged"
    /\ store[last_op.id].source = "completion"

\* C2: when a turn's flagging update and its later response update have both
\* been applied to the entry, the entry is flagged, with log_type "flagged"
\* and the reason the last flagging update wrote, and its response is the
\* one the response update wrote.
C2_FlagThenResponseKeepsBoth ==
    \A i \in Applied("flag_update"), j \in Applied("response_update") :
        (i = Max(Applied("flag_update")) /\ i < j /\ log_id \in DOMAIN store) =>
            /\ store[log_id].is_flagged = TRUE
            /\ store[log_id].log_type = "flagged"
            /\ store[log_id].flag_reason = ReasonWritten(consumed[hist[i].n])
            /\ store[log_id].response =
                   Some(clean_think_content(
                       IF Streamed THEN LastNonEmptyText ELSE consumed[1].answer))

\* A finished streamed turn whose entry was flagged with the default reason
\* and then given its final response.
C2_Witness ==
    /\ pc = "done"
    /\ Applied("flag_update") # {}
    /\ Applied("response_update") # {}
    /\ log_id \in DOMAIN store
    /\ store[log_id].is_flagged
    /\ store[log_id].flag_reason = NoRelevantKnowledge
    /\ store[log_id].response = Some(<<"A">>)

\* C3: in a turn that has a log entry, on every path, a partial answer that
\* carries the is_flagged marker is followed at once by a flagging update:
\* the update is the next call the handler issues after taking the answer,
\* before the answer's event and before the next answer is taken.
C3_FlaggedAnswerUpdatesLogAtOnce ==
    HasLogEntry =>
        \A i \in HistOps("consume") :
            (consumed[hist[i].n].is_flagged /\ i < Len(hist)) =>
                /\ hist[i + 1].op = "flag_update"
                /\ hist[i + 1].n = hist[i].n

\* C4: within a turn every flagging update is issued before the response
\* update.
C4_FlagUpdatesBeforeResponseUpdate ==
    \A i \in FlagUpdates, j \in ResponseUpdates : i < j

\* A turn that issued a flagging update for its second answer and then the
\* response update.
C4_Witness ==
    /\ \E i \in FlagUpdates : hist[i].n = 2
    /\ ResponseUpdates # {}

C6_NoLogWriteAfterEngineFailure ==
    [][Raised' =>
          /\ ResponseUpdates' = {}
          /\ (Raised /\ n_calls' = n_calls) => store' = store]_vars

\* A finished streamed turn whose engine raised after a flagged answer had
\* been written to the entry.
C6_Witness ==
    /\ Raised
    /\ pc = "done"
    /\ Applied("flag_update") # {}
    /\ log_id \in DOMAIN store
    /\ store[log_id].is_flagged
    /\ store[log_id].response = Some(CantAnswerThat)

\* C7: when the engine raises in a streamed turn, the caller gets exactly one
\* error event, of code 500, and no partial-answer event after it.
C7_OneErrorEvent ==
    Raised =>
        /\ Cardinality(FramesOf("error")) <= 1
        /\ pc \in {"error_sent", "done", "closed"} =>
               Cardinality(FramesOf("error")) = 1
        /\ \A i \in FramesOf("error") :
               /\ frames[i].n = 500
               /\ \A j \in FramesOf("answer") : j < i

\* A finished streamed turn whose engine raised after one answer was sent.
C7_Witness ==
    /\ Raised
    /\ pc = "done"
    /\ FramesOf("answer") # {}
    /\ FramesOf("error") # {}

\* C8: a stream of completion or ask that is pulled to its end holds exactly
\* one terminal frame, and it is the last frame; no stream holds a terminal
\* frame anywhere but at its end.
C8_TerminalFrameLast ==
    Streamed =>
        /\ \A i \in FramesOf("terminal") : i = Len(frames)
        /\ pc = "done" => FramesOf("terminal") = {Len(frames)} /\ frames # << >>

\* A stream that was pulled to its end after the engine raised.
C8_Witness ==
    /\ Streamed
    /\ pc = "done"
    /\ Raised
    /\ frames[Len(frames)].kind = "terminal"

\* C9: when creating the initial entry raises, the handler has no log id, it
\* issues no flagging update and no response update, and a stream pulled to
\* its end has invoked the engine and holds an event for every partial answer
\* the engine produced, in order, and then the terminal frame.
C9_TurnProceedsWithoutLog ==
    (\E i \in HistOps("create") : ~hist[i].ok) =>
        /\ log_id = NoId
        /\ FlagUpdates = {}
        /\ ResponseUpdates = {}
        /\ (Streamed /\ pc = "done") =>
               /\ Has("invoke")
               /\ \A k \in 1..Len(consumed) :
                      /\ k <= Len(frames)
                      /\ frames[k] = Frame("answer", k)
               /\ Cardinality(FramesOf("answer")) = Len(consumed)
               /\ frames[Len(frames)].kind = "terminal"

\* A finished stream with two answers, one of them flagged, after the entry
\* could not be created.
C9_Witness ==
    /\ \E i \in HistOps("create") : ~hist[i].ok
    /\ Streamed
    /\ pc = "done"
    /\ Len(consumed) = 2
    /\ consumed[1].is_flagged
    /\ consumed[2].answer = <<"A">>
    /\ Len(frames) = 3

\* C10: a turn creates its entry before it invokes the engine, and until the
\* engine is invoked the entry is pending: no response, not flagged,
\* log_type "normal".
C10_EntryPendingBeforeEngine ==
    /\ \A i \in HistOps("create"), j \in HistOps("invoke") : i < j
    /\ \A i \in Applied("create") :
           (~Has("invoke") /\ hist[i].n \in DOMAIN store) =>
               /\ store[hist[i].n].response = None
               /\ store[hist[i].n].is_flagged = FALSE
               /\ store[hist[i].n].log_type = "normal"

\* An ask turn that has just created its entry and not yet invoked the engine.
C10_Witness ==
    /\ path = "ask"
    /\ pc = "invoke"
    /\ HasLogEntry
    /\ log_id \in DOMAIN store
    /\ store[log_id].response = None
    /\ store[log_id].source = "ask"

--------------------------------------------------------------------------
(* What one call of the store changes *)

\* The step is a call of the store operation `name` from outside a turn.
StoreCall(name) == n_calls' = n_calls + 1 /\ last_op'.op = name

\* Across the step no entry appears or disappears, and nothing changes but
\* the fields F of the entry id.
OnlyFieldsChange(id, F) ==
    /\ DOMAIN store' = DOMAIN store
    /\ \A k \in DOMAIN store :
           \A f \in DOMAIN store[k] :
               (k # id \/ f \notin F) => store'[k][f] = store[k][f]

\* C11: a call of update_response changes nothing but response, tokens_used,
\* response_time and update_time of the entry it names; the classification,
\* the identity fields, create_time and every other entry stay as they were.
C11_ResponseUpdateFrame ==
    [][StoreCall("update_response") =>
          OnlyFieldsChange(last_op'.id,
              {"response", "tokens_used", "response_time", "update_time"})]_vars

\* A flagged entry, next to another entry, that update_response has just
\* given its response and metrics.
C11_Witness ==
    /\ last_op.op = "update_response"
    /\ last_op.ok
    /\ Cardinality(DOMAIN store) = 2
    /\ last_op.id \in DOMAIN store
    /\ store[last_op.id].is_flagged
    /\ store[last_op.id].log_type = "flagged"
    /\ store[last_op.id].response = Some(<<"R">>)
    /\ store[last_op.id].tokens_used = 5

\* C12: a call of update_log_with_flagging changes nothing but is_flagged,
\* flag_reason, response, response_time, log_type and update_time of the
\* entry it names; tokens_used and every other field keep their values.
C12_FlaggingUpdateFrame ==
    [][StoreCall("update_log_with_flagging") =>
          OnlyFieldsChange(last_op'.id,
              {"is_flagged", "flag_reason", "response", "response_time",
               "log_type", "update_time"})]_vars

--------------------------------------------------------------------------
(* What a request got *)

Asked(name) == last_op.op = name
Succeeded == last_op.res.kind \in {"json", "csv"}
BadDate(req) == req.start_date = Some(NotADate) \/ req.end_date = Some(NotADate)
IntOf(p, default) == IF p = None THEN default ELSE p[1].v
Descending(q) == \A i \in 1..(Len(q) - 1) : q[i].create_time >= q[i + 1].create_time
Ascending(q) == \A i \in 1..(Len(q) - 1) : q[i].create_time <= q[i + 1].create_time
Entries(q) == {q[i] : i \in 1..Len(q)}
TenantEntries(t) == {store[i] : i \in {j \in DOMAIN store : store[j].tenant_id = t}}

\* C13: a list or export request whose start_date or end_date is not a
\* YYYY-MM-DD date gets a client error, whatever the store holds and
\* whatever the other filters are; it never gets a successful result.
C13_BadDateIsClientError ==
    ((Asked("list_logs") \/ Asked("export_logs")) /\ BadDate(last_op.req)) =>
        last_op.res.kind = "data_error"

\* C14: a list request whose page or limit is not an integer gets a client
\* (data) error result, not a server-error response.
C14_BadPageIsClientError ==
    (Asked("list_logs")
        /\ (last_op.req.page = Some(NotAnInt) \/ last_op.req.limit = Some(NotAnInt))) =>
        last_op.res.kind = "data_error"

\* C15: the totals of a successful list are the counts of the caller's
\* tenant's entries, of the user when user_id names one ("all" names none),
\* whatever flag, search, dates, page and limit are; total_out_scope counts
\* the entries whose flag_reason is "out of scope".
C15_TotalsIgnoreFilters ==
    (Asked("list_logs") /\ Succeeded) =>
        LET req == last_op.req
            counted == {log \in TenantEntries(req.caller) :
                           req.user_id \notin {None, Some(ALL)} => log.user_id = req.user_id[1]}
            totals == last_op.res.data.totals
        IN /\ totals.total_chats = Cardinality(counted)
           /\ totals.total_flagged = Cardinality({log \in counted : log.is_flagged})
           /\ totals.total_out_scope =
                  Cardinality({log \in counted : log.flag_reason = "out of scope"})

\* A list of one user's flagged entries: the page holds one entry, the
\* totals count the user's two.
C15_Witness ==
    /\ Asked("list_logs")
    /\ Succeeded
    /\ last_op.req.flag = "flagged"
    /\ last_op.req.user_id = Some(U1)
    /\ Len(last_op.res.data.logs) = 1
    /\ last_op.res.data.totals.total_chats = 2
    /\ last_op.res.data.totals.total_flagged = 1

\* C16: a successful list uses page' = max(page, 1) and
\* limit' = min(max(limit, 1), 200); it returns the entries at positions
\* (page'-1)*limit' (counted from 0) up to but not including
\* (page'-1)*limit' + limit' of the filtered sequence, which is in descending
\* order, fewer or none when the sequence is shorter, and it reports
\* total = the length of that sequence and pages = ceil(total / limit').
C16_PageOfFilteredSequence ==
    (Asked("list_logs") /\ Succeeded) =>
        LET page == max(IntOf(last_op.req.page, 1), 1)
            limit == min(max(IntOf(last_op.req.limit, 50), 1), 200)
            total == Len(last_op.logs)
            first == (page - 1) * limit
            count == IF first >= total THEN 0 ELSE min(limit, total - first)
            data == last_op.res.data
        IN /\ Descending(last_op.logs)
           /\ data.logs = [i \in 1..count |-> last_op.logs[first + i]]
           /\ data.pagination.page = page
           /\ data.pagination.limit = limit
           /\ data.pagination.total = total
           /\ data.pagination.pages * limit >= total
           /\ (data.pagination.pages - 1) * limit < total \/ data.pagination.pages = 0

\* The second page of one entry of a sequence of two.
C16_Witness ==
    /\ Asked("list_logs")
    /\ Succeeded
    /\ last_op.req.page = Some(IntText(2))
    /\ last_op.req.limit = Some(IntText(1))
    /\ Len(last_op.logs) = 2
    /\ last_op.res.data.logs = <<last_op.logs[2]>>
    /\ last_op.res.data.pagination.pages = 2

\* C17: in a successful list with a search term, the filtered sequence holds
\* exactly the entries of the caller's tenant that pass the user filter and
\* the flag filter, hold the lower-cased term in the lower-cased question, in
\* the lower-cased response when there is one, or in the lower-cased user_id,
\* and pass the date filter; total and the page are taken from it.
C17_SearchFilter ==
    (Asked("list_logs") /\ Succeeded /\ last_op.req.search # None) =>
        LET req == last_op.req
            term == lower(req.search[1])
            found == {log \in TenantEntries(req.caller) :
                /\ req.user_id \notin {None, Some(ALL)} => log.user_id = req.user_id[1]
                /\ req.flag = "flagged" => log.is_flagged
                /\ req.flag = "unflagged" => ~log.is_flagged
                /\ req.flag = "inappropriate" => log.flag_reason = "inappropriate"
                /\ req.flag = "out-of-scope" => log.flag_reason = "out of scope"
                /\ \/ contains(term, lower(log.question))
                   \/ log.response # None /\ contains(term, lower(log.response[1]))
                   \/ contains(term, lower(log.user_id))
                /\ req.start_date # None => log.create_time >= req.start_date[1].day
                /\ req.end_date # None => log.create_time <= req.end_date[1].day}
        IN /\ Entries(last_op.logs) = found
           /\ Len(last_op.logs) = Cardinality(found)
           /\ last_op.res.data.pagination.total = Cardinality(found)
           /\ Entries(last_op.res.data.logs) \subseteq found

\* A search for "B" in a tenant of two entries that keeps the one whose
\* question is "Ab".
C17_Witness ==
    /\ Asked("list_logs")
    /\ Succeeded
    /\ last_op.req.search = Some(<<"B">>)
    /\ Cardinality(TenantEntries(last_op.req.caller)) = 2
    /\ Len(last_op.logs) = 1
    /\ last_op.logs[1].question = <<"A", "b">>
    /\ last_op.logs[1].response = None

\* C18: the flagged-logs route, for every limit it accepts, returns at most
\* min(limit, 200) entries (none for a limit below 1), all of them flagged
\* entries of the tenant, most recent first.
C18_FlaggedAtMostLimit ==
    (Asked("get_flagged_logs") /\ Succeeded) =>
        LET found == last_op.res.data.flagged_logs
        IN /\ Len(found) <= max(min(IntOf(last_op.req.limit, 100), 200), 0)
           /\ \A log \in Entries(found) :
                  log.is_flagged /\ log.tenant_id = last_op.req.caller
           /\ Descending(found)

\* C19: get_logs_by_conversation returns the entries in ascending
\* create_time order; list, get_flagged_logs, get_logs_by_user and export
\* return theirs in descending create_time order.
C19_QueryOrder ==
    /\ Asked("get_conversation_logs") => Ascending(last_op.logs)
    /\ (Asked("list_logs") /\ Succeeded) => Descending(last_op.res.data.logs)
    /\ (Asked("get_flagged_logs") /\ Succeeded) => Descending(last_op.res.data.flagged_logs)
    /\ (Asked("get_user_logs") /\ Succeeded) => Descending(last_op.res.data.user_logs)
    /\ (Asked("export_logs") /\ Succeeded) => Descending(last_op.logs)

\* The two entries of a conversation, logged at different times, the older
\* one first.
C19_Witness ==
    /\ Asked("get_conversation_logs")
    /\ Succeeded
    /\ Len(last_op.res.data.conversation_logs) = 2
    /\ last_op.res.data.conversation_logs[1].create_time
           < last_op.res.data.conversation_logs[2].create_time

\* C20: a statistics request of a caller with a tenant and an integer days
\* does not fault; when no entry of the tenant lies in the range it returns
\* total_logs = 0, average_response_time = 0 and flagged_percentage = 0; and
\* always total_logs = normal_logs + flagged_logs with flagged_logs the
\* number of selected entries that are flagged.
C20_StatisticsOfSelection ==
    (Asked("get_statistics") /\ last_op.req.days # Some(NotAnInt)) =>
        LET selected == {log \in TenantEntries(last_op.req.caller) :
                            /\ log.create_time >= now - IntOf(last_op.req.days, 30)
                            /\ log.create_time <= now}
            stats == last_op.res.data
        IN /\ last_op.res.kind = "json"
           /\ stats.total_logs = Cardinality(selected)
           /\ stats.flagged_logs = Cardinality({log \in selected : log.is_flagged})
           /\ stats.total_logs = stats.normal_logs + stats.flagged_logs
           /\ selected = {} =>
                  /\ stats.total_logs = 0
                  /\ stats.average_response_time = Zero
                  /\ stats.flagged_percentage = Zero

\* Statistics of a tenant that has entries, over a range that holds none.
C20_Witness ==
    /\ Asked("get_statistics")
    /\ last_op.req.days = Some(IntText(-1))
    /\ TenantEntries(last_op.req.caller) # {}
    /\ last_op.res.kind = "json"
    /\ last_op.res.data.total_logs = 0
    /\ last_op.res.data.average_response_time = Zero

--------------------------------------------------------------------------
(* What a relevance check returned *)

Checked == last_op.op = "check_question"

\* The reply begins, after trimming and in any case, with "FLAG:".
FlagReply(req) ==
    /\ req.has_bundle
    /\ ~req.llm.raised
    /\ LET t == strip(req.llm.value)
       IN Len(t) >= 2 /\ t[1] \in {"FLAG", "flag"} /\ t[2] = ":"

\* r of a reply "FLAG: r": the text after the colon, trimmed.
ReasonGiven(req) ==
    LET t == strip(req.llm.value)
    IN strip(SubSeq(t, 3, Len(t)))

\* C21: check_question returns a result in every case, and unless the
\* model's reply begins (in any case, after trimming) with "FLAG:" the result
\* has is_related true and is_flagged false: with no client, with a call that
\* raises, with an empty, an "ALLOW:" or an unparseable reply, and whatever
\* the document-name lookup does.
C21_AllowUnlessFlagReply ==
    Checked =>
        /\ ~last_op.res.raised
        /\ ~FlagReply(last_op.req) =>
              /\ last_op.res.value.is_related
              /\ ~last_op.res.value.is_flagged

\* The lookup of the document names failed and the reply was unparseable:
\* the question is allowed.
C21_Witness ==
    /\ Checked
    /\ last_op.req.has_bundle /\ last_op.req.use_llm
    /\ last_op.req.kb_ids # << >> /\ last_op.req.lookup.raised
    /\ last_op.req.llm = Returned(<<"r", ":", "FLAG">>)
    /\ ~last_op.res.raised
    /\ last_op.res.value.is_related

\* C22 as stated: for a reply "FLAG: r" the result has is_related false,
\* is_flagged true, the flagged message, and reason equal to r.
C22_Original ==
    (Checked /\ FlagReply(last_op.req)) =>
        /\ ~last_op.res.raised
        /\ ~last_op.res.value.is_related
        /\ last_op.res.value.is_flagged
        /\ last_op.res.value.response_message = "Your answer has been flagged"
        /\ last_op.res.value.reason = ReasonGiven(last_op.req)

\* C22: for a reply "FLAG: r" the result has is_related false, is_flagged
\* true (the negation of is_related), response_message "Your answer has been
\* flagged", and reason "Not answerable from KB: " followed by r, the trimmed
\* text after the colon.
C22_FlagReply ==
    (Checked /\ FlagReply(last_op.req)) =>
        /\ ~last_op.res.raised
        /\ ~last_op.res.value.is_related
        /\ last_op.res.value.is_flagged = ~last_op.res.value.is_related
        /\ last_op.res.value.response_message = "Your answer has been flagged"
        /\ last_op.res.value.reason =
               <<"Not answerable from KB: ">> \o ReasonGiven(last_op.req)

\* The reply "FLAG: r".
C22_Witness ==
    /\ Checked
    /\ last_op.req.has_bundle
    /\ last_op.req.llm = Returned(<<"FLAG", ":", WS, "r">>)
    /\ last_op.res.value.is_flagged
    /\ last_op.res.value.reason = <<"Not answerable from KB: ", "r">>

--------------------------------------------------------------------------
(* What cleaning a text gave *)

Cleaned == last_op.op = "clean_think_content"

\* The tags of the first n tokens: opened minus closed.
RECURSIVE Depth(_, _)
Depth(s, n) ==
    IF n = 0 THEN 0
    ELSE Depth(s, n - 1) + (IF s[n] = OPEN THEN 1 ELSE IF s[n] = CLOSE THEN -1 ELSE 0)

ProperlyNested(s) ==
    /\ \A n \in 1..Len(s) : Depth(s, n) >= 0
    /\ Depth(s, Len(s)) = 0

\* The tokens that are no tag and lie in no think block.
RECURSIVE OutsideUpTo(_, _)
OutsideUpTo(s, n) ==
    IF n = 0 THEN << >>
    ELSE IF s[n] \notin {OPEN, CLOSE} /\ Depth(s, n) = 0
         THEN Append(OutsideUpTo(s, n - 1), s[n])
         ELSE OutsideUpTo(s, n - 1)

Outside(s) == OutsideUpTo(s, Len(s))

\* C23: for every text whose <think> and </think> tags are properly nested,
\* clean_think_content returns the text outside all think blocks, trimmed of
\* surrounding whitespace: no tag and no text of a think block is left, and
\* "<think>x<think>y</think>z</think>done" gives "done".
C23_NestedThinkRemoved ==
    (Cleaned /\ ProperlyNested(last_op.req)) =>
        last_op.res = strip(Outside(last_op.req))

\* The cell of a value that is there: its text.
CellOf(v) == <<v>>
EmptyCell(c) == Len(c) = 0

\* C24: a CSV export has a header row of the 13 columns id, create_time,
\* user_id, question, response, is_flagged, log_type, flag_reason, source,
\* tokens_used, response_time, dialog_id, conversation_id in that order, then
\* one row for every exported entry with the entry's values in those 13
\* columns in the same order; the cell of a field that is absent on the
\* entry (no response, no flag_reason, no dialog, no conversation) is empty.
C24_CsvColumns ==
    (Asked("export_logs") /\ last_op.res.kind = "csv") =>
        LET csv == last_op.res.data
        IN /\ csv.header = <<"id", "create_time", "user_id", "question", "response",
                             "is_flagged", "log_type", "flag_reason", "source",
                             "tokens_used", "response_time", "dialog_id",
                             "conversation_id">>
           /\ Len(csv.rows) = Len(last_op.logs)
           /\ \A i \in 1..Len(csv.rows) :
                 LET row == csv.rows[i]
                     log == last_op.logs[i]
                 IN /\ Len(row) = 13
                    /\ row[1] = CellOf(IntText(log.id))
                    /\ row[2] = CellOf(IntText(log.create_time))
                    /\ row[3] = log.user_id
                    /\ row[4] = log.question
                    /\ IF log.response = None THEN EmptyCell(row[5])
                       ELSE row[5] = log.response[1]
                    /\ row[6] = CellOf(IF log.is_flagged THEN "True" ELSE "False")
                    /\ row[7] = CellOf(log.log_type)
                    /\ IF log.flag_reason = NULL THEN EmptyCell(row[8])
                       ELSE row[8] = CellOf(log.flag_reason)
                    /\ row[9] = CellOf(log.source)
                    /\ row[10] = CellOf(IntText(log.tokens_used))
                    /\ row[11] = CellOf(IntText(log.response_time))
                    /\ IF log.dialog_id = NULL THEN EmptyCell(row[12])
                       ELSE row[12] = CellOf(log.dialog_id)
                    /\ IF log.conversation_id = NULL THEN EmptyCell(row[13])
                       ELSE row[13] = CellOf(log.conversation_id)

\* An export of two entries, one with no response and no flag_reason, one
\* with both.
C24_Witness ==
    /\ Asked("export_logs")
    /\ last_op.res.kind = "csv"
    /\ Len(last_op.res.data.rows) = 2
    /\ \E i, j \in 1..2 :
          /\ last_op.logs[i].flag_reason = NULL
          /\ last_op.logs[i].response = None
          /\ last_op.res.data.rows[i][8] = << >>
          /\ last_op.logs[j].flag_reason # NULL
          /\ last_op.res.data.rows[j][8] = <<last_op.logs[j].flag_reason>>

\* The entries of the store that belong to a conversation.
ConversationEntries(id) ==
    {store[i] : i \in {j \in DOMAIN store : store[j].conversation_id = id}}

OfCaller(q) == \A log \in Entries(q) : log.tenant_id = last_op.req.caller

\* C25: every entry that list, flagged logs, user logs, conversation logs
\* and export return has the caller's tenant_id; a conversation-logs request
\* for a conversation that has entries, none of them the caller's tenant's,
\* is refused with an access-denied error, and one that succeeds returns the
\* caller's tenant's entries of the conversation and no other tenant's.
C25_TenantIsolation ==
    /\ (Asked("list_logs") /\ Succeeded) => OfCaller(last_op.res.data.logs)
    /\ (Asked("get_flagged_logs") /\ Succeeded) => OfCaller(last_op.res.data.flagged_logs)
    /\ (Asked("get_user_logs") /\ Succeeded) => OfCaller(last_op.res.data.user_logs)
    /\ (Asked("export_logs") /\ Succeeded) => OfCaller(last_op.logs)
    /\ (Asked("export_logs") /\ last_op.res.kind = "json") =>
           OfCaller(last_op.res.data.logs)
    /\ Asked("get_conversation_logs") =>
           LET held == ConversationEntries(last_op.req.conversation_id)
               own == {log \in held : log.tenant_id = last_op.req.caller}
           IN /\ (held # {} /\ own = {}) =>
                    /\ last_op.res.kind = "data_error"
                    /\ last_op.res.message = "Access denied to conversation logs"
              /\ Succeeded =>
                    Entries(last_op.res.data.conversation_logs) = own

\* A conversation with an entry of each of two tenants, asked for by one of
\* them: one entry is returned.
C25_Witness ==
    /\ Asked("get_conversation_logs")
    /\ Succeeded
    /\ \E a, b \in ConversationEntries(last_op.req.conversation_id) :
          a.tenant_id = last_op.req.caller /\ b.tenant_id # last_op.req.caller
    /\ Len(last_op.res.data.conversation_logs) = 1

\* The ids of the entries of a tenant.
IdsOf(s, t) == {i \in DOMAIN s : s[i].tenant_id = t}

\* C26: a call of delete_all_logs removes exactly the entries of the tenant
\* it is called for, returns how many it removed and leaves every entry of
\* every other tenant as it was; no other operation of the store removes an
\* entry.
C26_OnlyPurgeRemoves ==
    [][/\ StoreCall("delete_all_logs") =>
             /\ DOMAIN store' = DOMAIN store \ IdsOf(store, last_op'.req)
             /\ last_op'.id = Cardinality(IdsOf(store, last_op'.req))
             /\ \A i \in DOMAIN store' : store'[i] = store[i]
       /\ ~StoreCall("delete_all_logs") => DOMAIN store \subseteq DOMAIN store'
      ]_vars

\* A purge removed the one entry of its tenant and left the other tenant's.
C26_Witness ==
    /\ last_op.op = "delete_all_logs"
    /\ last_op.id = 1
    /\ store # << >>
    /\ \A i \in DOMAIN store : store[i].tenant_id # last_op.req

--------------------------------------------------------------------------
(* What failed log updates do to a streamed turn *)

FailedUpdates ==
    {i \in FlagUpdates \cup ResponseUpdates : ~hist[i].ok}

\* The step issues a log update that raises or reports failure.
UpdateFails ==
    /\ Len(hist') = Len(hist) + 1
    /\ hist'[Len(hist')].op \in {"flag_update", "response_update"}
    /\ ~hist'[Len(hist')].ok

\* The conversation could not be saved after the stream was exhausted.
SaveFailed ==
    path = "completion_stream" /\ ~is_embedded /\ Has("exhausted") /\ ~Has("raise")

\* The answer frames sent so far are those of the partial answers, in order.
AnswersInOrder ==
    LET sent == SelectSeq(frames, LAMBDA f : f.kind = "answer")
    IN /\ Len(sent) \in {n_ans - 1, n_ans}
       /\ \A k \in 1..Len(sent) : sent[k] = Frame("answer", k)

\* C27: in a streamed turn a flagging update or a final response update that
\* raises or reports failure does not interrupt the stream: the failing step
\* sends nothing and the generator goes on, every partial answer of the
\* engine is emitted in order, no error event is emitted because of it (one
\* is emitted only when the engine raised or the conversation could not be
\* saved), and the stream ends with the terminal frame.
C27_FailedUpdateKeepsStream ==
    /\ [][(Streamed /\ UpdateFails) =>
             /\ frames' = frames
             /\ pc' \in {"collect", "save_conv", "terminal"}]_vars
    /\ []((Streamed /\ FailedUpdates # {}) =>
             /\ AnswersInOrder
             /\ FramesOf("error") # {} => (Raised \/ SaveFailed)
             /\ (pc = "done" /\ ~Raised /\ FramesOf("error") = {}) =>
                    /\ Len(frames) = n_ans + 1
                    /\ \A k \in 1..n_ans : frames[k] = Frame("answer", k)
                    /\ frames[Len(frames)] = Frame("terminal", 0))

\* A streamed turn of two partial answers whose flagging update and whose
\* final response update both failed: both answers and the terminal frame
\* were sent.
C27_Witness ==
    /\ Streamed
    /\ pc = "done"
    /\ \E i \in FlagUpdates : ~hist[i].ok
    /\ \E i \in ResponseUpdates : ~hist[i].ok
    /\ frames = <<Frame("answer", 1), Frame("answer", 2), Frame("terminal", 0)>>

--------------------------------------------------------------------------
(* What the orchestrator does to a flagged entry *)

\* The step is one of the turn's, not the purge of another request.
TurnStep == last_op'.op # "delete_all_logs" \/ last_op' = last_op

EntryOf(s) == s[log_id]
HasEntryIn(s) == log_id # NoId /\ log_id \in DOMAIN s

\* The step issues a flagging update that is applied.
FlagUpdateApplied ==
    /\ Len(hist') = Len(hist) + 1
    /\ hist'[Len(hist')].op = "flag_update"
    /\ hist'[Len(hist')].ok

\* C30: once the turn's entry is flagged it stays flagged: no step of the
\* orchestrator (a further flagging update, the final response update) sets
\* is_flagged back to false or log_type to anything but "flagged", and every
\* flagging update the orchestrator issues leaves the entry flagged, i.e. is
\* issued with is_flagged = true.
C30_FlaggedStaysFlagged ==
    [][/\ (TurnStep /\ HasEntryIn(store) /\ HasEntryIn(store')
              /\ EntryOf(store).is_flagged) =>
             /\ EntryOf(store').is_flagged
             /\ EntryOf(store').log_type = "flagged"
       /\ FlagUpdateApplied =>
             /\ EntryOf(store').is_flagged
             /\ EntryOf(store').log_type = "flagged"
      ]_vars

\* An entry flagged during the stream, then given its final response, is
\* still flagged.
C30_Witness ==
    /\ Applied("flag_update") # {}
    /\ Applied("response_update") # {}
    /\ HasEntryIn(store)
    /\ EntryOf(store).is_flagged
    /\ EntryOf(store).log_type = "flagged"
    /\ EntryOf(store).response # None

--------------------------------------------------------------------------
(* When the response update is issued *)

Before(i, op) == \E j \in 1..(i - 1) : hist[j].op = op

\* With no response update, the response is absent unless a flagging update
\* wrote one.
ResponseLeftAbsent ==
    /\ ResponseUpdates = {}
    /\ HasEntryIn(store) =>
           (EntryOf(store).response = None \/ Applied("flag_update") # {})

\* C29 as stated: per turn the response update is issued at most once, and
\* only after the engine's stream has been exhausted without error and a
\* partial answer had text; a turn whose caller stopped before exhaustion, or
\* whose answers had no text, issues none and leaves the response absent
\* unless a flagging update wrote one.
C29_Original ==
    /\ Cardinality(ResponseUpdates) <= 1
    /\ \A i \in ResponseUpdates :
           /\ Before(i, "exhausted")
           /\ ~Has("raise")
           /\ NonEmptyAnswers # {}
    /\ (path # "none" /\ (~Has("exhausted") \/ NonEmptyAnswers = {})) =>
           ResponseLeftAbsent

\* C29: per turn the response update is issued at most once, only when the
\* engine raised no error and a partial answer had text, and in a streamed
\* turn only after the engine's stream has been exhausted (the non-streaming
\* completion issues it after taking the engine's first answer); a streamed
\* turn whose caller stopped before exhaustion, and any turn whose answers
\* had no text, issues none and leaves the response absent unless a flagging
\* update wrote one.
C29_ResponseUpdateOnce ==
    /\ Cardinality(ResponseUpdates) <= 1
    /\ \A i \in ResponseUpdates :
           /\ IF Streamed THEN Before(i, "exhausted") ELSE Before(i, "consume")
           /\ ~Has("raise")
           /\ NonEmptyAnswers # {}
    /\ ((Streamed /\ ~Has("exhausted")) \/ (path # "none" /\ NonEmptyAnswers = {})) =>
           ResponseLeftAbsent

\* The caller stopped pulling after an answer with text: no response update
\* was issued and the entry has no response.
C29_Witness ==
    /\ Streamed
    /\ pc = "closed"
    /\ NonEmptyAnswers # {}
    /\ ~Has("exhausted")
    /\ ResponseUpdates = {}
    /\ HasEntryIn(store)
    /\ EntryOf(store).response = None

--------------------------------------------------------------------------
(* What the transcript holds while the answers arrive *)

EndsWithUser == messages # << >> /\ messages[Len(messages)].role = "user"
ReferencesAtStart == hist[Max(HistOps("invoke"))].n

\* C28: in a completion turn whose submitted messages end with a user
\* message, once k >= 1 partial answers have been processed the transcript
\* has exactly one message more than the submitted list, its last message is
\* an assistant message with the k-th answer's text as content and the user
\* message's id as id, and the reference list is as long as when the engine
\* was started, its last block being the k-th answer's reference (its chunks
\* in the transcript's format; a reference that is no dict counts as one
\* without chunks).
C28_TranscriptFollowsStream ==
    (path \in {"completion", "completion_stream"} /\ EndsWithUser /\ n_ans >= 1) =>
        LET said == conv.message[Len(conv.message)]
            block == conv.reference[Len(conv.reference)]
            given == consumed[n_ans].reference
        IN /\ Len(conv.message) = Len(messages) + 1
           /\ said.role = "assistant"
           /\ said.content = consumed[n_ans].answer
           /\ said.id = messages[Len(messages)].id
           /\ Len(conv.reference) = ReferencesAtStart
           /\ IF given.type = "dict"
              THEN /\ block.doc_aggs = given.doc_aggs
                   /\ Len(block.chunks) = Len(given.chunks)
                   /\ \A i \in 1..Len(given.chunks) :
                          /\ block.chunks[i].id = given.chunks[i].chunk_id
                          /\ block.chunks[i].content = given.chunks[i].content_with_weight
              ELSE block.chunks = << >>

\* A streamed completion after its second partial answer: the transcript
\* holds the second answer's text in the one message it gained, and the two
\* reference blocks it started with.
C28_Witness ==
    /\ path = "completion_stream"
    /\ EndsWithUser
    /\ n_ans = 2
    /\ consumed[1].answer # consumed[2].answer
    /\ consumed[2].reference.type = "dict"
    /\ Len(conv.message) = Len(messages) + 1
    /\ conv.message[Len(conv.message)].content = consumed[2].answer
    /\ Len(conv.reference) = 2
    /\ conv.reference[2].doc_aggs = consumed[2].reference.doc_aggs

==========================================================================
